---- MODULE Spec2Model ----
(***************************************************************************)
(* Model of the DataLens backend's analysis / visualization layer          *)
(* (backend/app/services/analyzer.py, visualizer.py, data_processor.py)    *)
(* and of the dataset loader the API calls before every analysis.          *)
(*                                                                         *)
(* A table (pandas DataFrame) is a sequence of columns                     *)
(*     [name |-> STRING, dtype |-> "number" | "object", cells |-> Seq]     *)
(* of equal length.  A cell is <<>> (missing, NaN) or <<v>>: v an integer  *)
(* in a "number" column, the code k of the text "s<k>" in an "object"      *)
(* column.  Floating point results are kept exact: a finite float is a     *)
(* reduced rational                                                        *)
(* [n |-> Int, d |-> Nat \ {0}], an undefined one is NaN, Python's None is *)
(* None.  Only finite cell values are modelled.                            *)
(***************************************************************************)
EXTENDS Integers, Sequences, FiniteSets, TLC

VARIABLES
    df,        \* the table the request loaded (read_dataset's return value)
    call,      \* the analysis call in progress: [fn |-> ..., params...]
    result,    \* what the call returned
    prev,      \* what the previous call returned (the request before)
    files,     \* stored upload: path -> [ext, content]
    datasets,  \* dataset records: id -> [path, ext, rows]
    response,  \* last HTTP response of the loader / upload path
    users,     \* user records: id -> [email, username, is_active, ...]
    tokens     \* access tokens create_access_token has signed

vars == <<df, call, result, prev, files, datasets, response, users, tokens>>

-----------------------------------------------------------------------------
(* Bounds of the model.                                                    *)

StatsRows == 4      \* rows of the tables given to the statistics engine
StatsMaxVal == 2    \* its numeric cells range over 0..StatsMaxVal
CorrRows == 3       \* rows of the tables given to the correlation engine
OutRows == 4        \* rows of the small tables given to the outlier detector
BlockLen == 60      \* length of a long run of equal cells in its large tables
HistRows == 4       \* rows of the tables given to the histogram preparer
MaxDatasets == 1    \* uploads the loader model accepts
PieRows == 3        \* rows of the tables given to the pie chart preparer
PieTopN == 3        \* its top_n ranges over 1..PieTopN
KindRows == 2       \* rows of the tables of mixed column kinds
TrendCols == 3      \* columns of the tables that exercise column resolution
TrendRows == 3      \* rows of the small tables given to the trend analyzer
LongRows == 32      \* rows of its long tables
SummaryRows == 3    \* rows of the tables given to the summary reporter

-----------------------------------------------------------------------------
(* Exact arithmetic standing for float64.                                  *)

NaN == [nan |-> TRUE]
None == [none |-> TRUE]

Abs(x) == IF x < 0 THEN -x ELSE x

RECURSIVE Gcd(_, _)
Gcd(a, b) == IF b = 0 THEN a ELSE Gcd(b, a % b)

Rat(n, d) ==
    LET s == IF d < 0 THEN -1 ELSE 1
        g == Gcd(Abs(n), Abs(d))
    IN  [n |-> (s * n) \div g, d |-> (s * d) \div g]

Float(v) == Rat(v, 1)

IsNum(x) == DOMAIN x = {"n", "d"}

RLe(a, b) == a.n * b.d <= b.n * a.d
RLt(a, b) == a.n * b.d < b.n * a.d
RSub(a, b) == Rat(a.n * b.d - b.n * a.d, a.d * b.d)
RAdd(a, b) == Rat(a.n * b.d + b.n * a.d, a.d * b.d)
RMul(a, b) == Rat(a.n * b.n, a.d * b.d)

\* Sum of s[lo..hi], split in halves so the evaluation stays shallow on long columns.
RECURSIVE SumRange(_, _, _)
SumRange(s, lo, hi) ==
    IF lo > hi THEN 0
    ELSE IF lo = hi THEN s[lo]
    ELSE LET mid == (lo + hi) \div 2
         IN  SumRange(s, lo, mid) + SumRange(s, mid + 1, hi)

SumSeq(s) == SumRange(s, 1, Len(s))

SumSq(s) == SumSeq([i \in 1..Len(s) |-> s[i] * s[i]])

-----------------------------------------------------------------------------
(* pandas Series primitives used by the services.                          *)

IsNA(c) == c = <<>>

\* Series.dropna(): the non-missing values, in row order.
DropNA(cells) ==
    LET kept == SelectSeq(cells, LAMBDA c : ~IsNA(c))
    IN  [i \in 1..Len(kept) |-> kept[i][1]]

NACount(cells) == Len(SelectSeq(cells, IsNA))

Sorted(xs) == SortSeq(xs, LAMBDA a, b : a < b)

\* Mutant: the interpolation weights of the two order statistics exchanged.
Quantile_SwappedWeights(xs, qn, qd) ==
    LET s == SortSeq(xs, LAMBDA a, b : a < b)
        pos == (Len(xs) - 1) * qn
        lo == pos \div qd
        r == pos % qd
        hi == IF r = 0 THEN lo ELSE lo + 1
    IN  Rat(s[lo + 1] * r + s[hi + 1] * (qd - r), qd)

\* Series.quantile(qn/qd), linear interpolation between order statistics.
Quantile(xs, qn, qd) ==
    LET s == Sorted(xs)
        pos == (Len(xs) - 1) * qn
        lo == pos \div qd
        r == pos % qd
        hi == IF r = 0 THEN lo ELSE lo + 1
    IN  Rat(s[lo + 1] * (qd - r) + s[hi + 1] * r, qd)

SeqMin(xs) == CHOOSE v \in {xs[i] : i \in 1..Len(xs)} :
                  \A j \in 1..Len(xs) : v <= xs[j]
SeqMax(xs) == CHOOSE v \in {xs[i] : i \in 1..Len(xs)} :
                  \A j \in 1..Len(xs) : v >= xs[j]

Mean(xs) == Rat(SumSeq(xs), Len(xs))

\* Series.var(): sample variance (ddof = 1), NaN for a single value.
Variance(xs) ==
    LET n == Len(xs)
    IN  IF n < 2 THEN NaN
        ELSE Rat(n * SumSq(xs) - SumSeq(xs) * SumSeq(xs), n * (n - 1))

Freq(xs, v) == Cardinality({i \in 1..Len(xs) : xs[i] = v})

\* Series.mode()[0]: the smallest of the most frequent values.
Mode(xs) ==
    LET vals == {xs[i] : i \in 1..Len(xs)}
        best == {v \in vals : \A w \in vals : Freq(xs, v) >= Freq(xs, w)}
    IN  CHOOSE v \in best : \A w \in best : v <= w

\* DataFrame.select_dtypes(include=['number']): positions of the numeric columns.
NumericCols(t) == SelectSeq([i \in 1..Len(t) |-> i], LAMBDA i : t[i].dtype = "number")

NRows(t) == IF t = <<>> THEN 0 ELSE Len(t[1].cells)

ColNames(t) == {t[i].name : i \in 1..Len(t)}

Col(t, name) == t[CHOOSE i \in 1..Len(t) : t[i].name = name]

-----------------------------------------------------------------------------
(* numpy.histogram(xs, bins=b): b equal-width bins over [min, max]         *)
(* ([0, 1] for no data, [v - 0.5, v + 0.5] for a single distinct value);   *)
(* every bin is half-open except the last, which includes its right edge.  *)

HistFirst(xs) ==
    IF xs = <<>> THEN Float(0)
    ELSE IF SeqMin(xs) = SeqMax(xs) THEN Rat(2 * SeqMin(xs) - 1, 2)
    ELSE Float(SeqMin(xs))

HistLast(xs) ==
    IF xs = <<>> THEN Float(1)
    ELSE IF SeqMin(xs) = SeqMax(xs) THEN Rat(2 * SeqMax(xs) + 1, 2)
    ELSE Float(SeqMax(xs))

\* numpy.linspace(first, last, b + 1)
BinEdges(xs, b) ==
    LET first == HistFirst(xs)
        width == RSub(HistLast(xs), first)
    IN  [k \in 1..(b + 1) |-> RAdd(first, RMul(width, Rat(k - 1, b)))]

\* Mutant: the last bin half-open like the others.
InBin_LastHalfOpen(x, edges, k, b) ==
    RLe(edges[k], Float(x)) /\ RLt(Float(x), edges[k + 1])

InBin(x, edges, k, b) ==
    /\ RLe(edges[k], Float(x))
    /\ \/ RLt(Float(x), edges[k + 1])
       \/ k = b /\ RLe(Float(x), edges[k + 1])

BinCounts(xs, b) ==
    LET edges == BinEdges(xs, b)
    IN  [k \in 1..b |-> Cardinality({i \in 1..Len(xs) : InBin(xs[i], edges, k, b)})]

\* f'{x:.2f}': x in hundredths, rounded to nearest.
Round2(x) == (2 * 100 * x.n + x.d) \div (2 * x.d)

-----------------------------------------------------------------------------
(* analyzer.calculate_descriptive_statistics                               *)

SturgesCap == 20

\* int(np.ceil(np.log2(n) + 1)) for n >= 1
CeilLog2Plus1(n) == 1 + CHOOSE k \in 0..n : 2^k >= n /\ (k = 0 \/ 2^(k - 1) < n)

Min2(a, b) == IF a <= b THEN a ELSE b

StatRecord(t, i) ==
    LET xs == DropNA(t[i].cells)
    IN  [count |-> Len(xs),
         mean |-> Mean(xs),
         median |-> Quantile(xs, 1, 2),
         mode |-> Float(Mode(xs)),
         variance |-> Variance(xs),
         min |-> Float(SeqMin(xs)),
         max |-> Float(SeqMax(xs)),
         range |-> Float(SeqMax(xs) - SeqMin(xs)),
         q25 |-> Quantile(xs, 1, 4),
         q50 |-> Quantile(xs, 2, 4),
         q75 |-> Quantile(xs, 3, 4),
         iqr |-> RSub(Quantile(xs, 3, 4), Quantile(xs, 1, 4)),
         missing_count |-> NACount(t[i].cells),
         missing_percentage |-> Rat(NACount(t[i].cells) * 100, NRows(t))]

DistRecord(t, i) ==
    LET xs == DropNA(t[i].cells)
        n_bins == Min2(CeilLog2Plus1(Len(xs)), SturgesCap)
        edges == BinEdges(xs, n_bins)
    IN  [labels |-> [k \in 1..n_bins |->
                        Round2(RMul(RAdd(edges[k], edges[k + 1]), Rat(1, 2)))],
         values |-> BinCounts(xs, n_bins),
         bins |-> n_bins,
         bin_edges |-> edges]

\* The columns the per-column loop does not `continue` past.
NonEmptyNumeric(t) ==
    {i \in 1..Len(t) : t[i].dtype = "number" /\ DropNA(t[i].cells) # <<>>}

NameIndex(t, S, nm) == CHOOSE i \in S : t[i].name = nm

calculate_descriptive_statistics(t, include_distributions) ==
    IF NumericCols(t) = <<>> \/ NRows(t) = 0
    THEN [error |-> "No numeric columns found"]
    ELSE LET S == NonEmptyNumeric(t)
             names == {t[i].name : i \in S}
             statistics == [nm \in names |-> StatRecord(t, NameIndex(t, S, nm))]
         IN  IF include_distributions
             THEN [statistics |-> statistics,
                   distributions |-> [nm \in names |-> DistRecord(t, NameIndex(t, S, nm))]]
             ELSE [statistics |-> statistics]

-----------------------------------------------------------------------------
(* Tables as the loader produces them.  pandas infers a column's dtype     *)
(* from its cells: float64/int64 when every cell is a number or missing    *)
(* (an all-missing column is float64), object when any cell is a string    *)
(* or when the file has no data row at all.                                *)

NumCells(vals) == {<<>>} \cup {<<v>> : v \in vals}

\* Text cells: missing, "s1", "s2".
StrCells == {<<>>, <<1>>, <<2>>}

InferDtype(kind, cells) ==
    IF Len(cells) = 0 THEN "object"
    ELSE IF \A i \in 1..Len(cells) : IsNA(cells[i]) THEN "number"
    ELSE kind

MakeColumn(name, kind, cells) ==
    [name |-> name, dtype |-> InferDtype(kind, cells), cells |-> cells]

\* Fixed companion columns of r rows: none, an all-missing column, a text
\* column, a numeric ramp 1..r.
Companions(name, r) ==
    {<<>>,
     <<MakeColumn(name, "number", [i \in 1..r |-> <<>>])>>,
     <<MakeColumn(name, "object", [i \in 1..r |-> <<1>>])>>,
     <<MakeColumn(name, "number", [i \in 1..r |-> <<i>>])>>}

\* The tables of the statistics requests: one free column, numeric or text,
\* beside one companion.
StatsTable(t) ==
    \E r \in 0..StatsRows, kind \in {"number", "object"} :
        \E cs \in [1..r -> IF kind = "number" THEN NumCells(0..StatsMaxVal) ELSE StrCells],
           extra \in Companions("b", r) :
            t = IF kind = "number"
                THEN <<MakeColumn("a", kind, cs)>> \o extra
                ELSE extra \o <<MakeColumn("a", kind, cs)>>

NoCall == [fn |-> "none"]
NoResult == [pending |-> TRUE]

InitIdle ==
    /\ call = NoCall
    /\ result = NoResult
    /\ prev = [call |-> NoCall, result |-> NoResult]
    /\ files = <<>>
    /\ datasets = <<>>
    /\ response = [status |-> 0, detail |-> ""]
    /\ users = <<>>
    /\ tokens = {}

\* One request: the handler calls one service, once, on the table it loaded
\* and returns its value.
Serve(c, r) ==
    /\ result = NoResult
    /\ call' = c
    /\ result' = r
    /\ UNCHANGED <<files, datasets, response, users, tokens>>

-----------------------------------------------------------------------------
(* GET /{dataset_id}/statistics                                            *)

\* The service reads df through select_dtypes()/dropna() copies only.
StatisticsDf(t) == t

GetStatistics ==
    \E inc \in BOOLEAN :
        /\ Serve([fn |-> "statistics", include_distributions |-> inc],
                 calculate_descriptive_statistics(df, inc))
        /\ df' = StatisticsDf(df)
        /\ UNCHANGED prev

InitStats == StatsTable(df) /\ InitIdle
NextStats == GetStatistics
SpecStats == InitStats /\ [][NextStats]_vars

RatLeq(a, b) == IsNum(a) /\ IsNum(b) /\ RLe(a, b)

\* C1: every statistics record satisfies min <= q25 <= q50 <= q75 <= max and
\* iqr = q75 - q25 >= 0.
C1_QuantilesOrdered ==
    (call.fn = "statistics" /\ "statistics" \in DOMAIN result) =>
        \A nm \in DOMAIN result.statistics :
            LET s == result.statistics[nm]
            IN  /\ RatLeq(s.min, s.q25)
                /\ RatLeq(s.q25, s.q50)
                /\ RatLeq(s.q50, s.q75)
                /\ RatLeq(s.q75, s.max)
                /\ s.iqr = RSub(s.q75, s.q25)
                /\ RatLeq(Float(0), s.iqr)

\* A record whose quartiles are interpolated and pairwise different.
C1_Witness ==
    /\ call.fn = "statistics"
    /\ "statistics" \in DOMAIN result
    /\ \E nm \in DOMAIN result.statistics :
        LET s == result.statistics[nm]
        IN  /\ RLt(s.min, s.q25) /\ RLt(s.q25, s.q50)
            /\ RLt(s.q50, s.q75) /\ RLt(s.q75, s.max)
            /\ s.q25.d = 4
            /\ s.missing_count > 0

-----------------------------------------------------------------------------
(* analyzer.calculate_correlation_matrix: DataFrame.corr(method) with      *)
(* min_periods = 1.  A coefficient num / sqrt(den2) is kept exactly as its *)
(* sign and its square; an undefined one (zero divisor, no common row) is  *)
(* NaN.                                                                    *)

Sgn(x) == IF x > 0 THEN 1 ELSE IF x < 0 THEN -1 ELSE 0

CorrVal(num, den2) ==
    IF den2 = 0 THEN NaN ELSE [sign |-> Sgn(num), sq |-> Rat(num * num, den2)]

One == [sign |-> 1, sq |-> Float(1)]

\* Rows where both columns hold a value (pairwise deletion).
PairRows(x, y) ==
    SelectSeq([i \in 1..Len(x) |-> i], LAMBDA i : ~IsNA(x[i]) /\ ~IsNA(y[i]))

Pick(cells, rows) == [k \in 1..Len(rows) |-> cells[rows[k]][1]]

Prod(xs, ys) == [i \in 1..Len(xs) |-> xs[i] * ys[i]]

\* Mutant: the covariance taken with n - 1 where the variances use n.
PearsonOf_MixedDdof(xs, ys) ==
    LET n == Len(xs)
        sx == SumSeq(xs)
        sy == SumSeq(ys)
    IN  CorrVal((n - 1) * SumSeq(Prod(xs, ys)) - sx * sy,
                (n * SumSq(xs) - sx * sx) * (n * SumSq(ys) - sy * sy))

\* libalgos.nancorr on the common rows: cov / sqrt(var_x * var_y).
PearsonOf(xs, ys) ==
    LET n == Len(xs)
        sx == SumSeq(xs)
        sy == SumSeq(ys)
    IN  CorrVal(n * SumSeq(Prod(xs, ys)) - sx * sy,
                (n * SumSq(xs) - sx * sx) * (n * SumSq(ys) - sy * sy))

\* Twice the average rank of each value among xs.
Rank2(xs) ==
    [i \in 1..Len(xs) |->
        2 * Cardinality({j \in 1..Len(xs) : xs[j] < xs[i]})
        + Cardinality({j \in 1..Len(xs) : xs[j] = xs[i]}) + 1]

\* libalgos.nancorr_spearman: Pearson on the ranks of the common rows.
SpearmanOf(xs, ys) == PearsonOf(Rank2(xs), Rank2(ys))

\* scipy.stats.kendalltau (tau-b) on the common rows.
KendallOf(xs, ys) ==
    LET n == Len(xs)
        P == {p \in (1..n) \X (1..n) : p[1] < p[2]}
        sgn(p) == Sgn(xs[p[1]] - xs[p[2]]) * Sgn(ys[p[1]] - ys[p[2]])
        con == Cardinality({p \in P : sgn(p) = 1})
        dis == Cardinality({p \in P : sgn(p) = -1})
        xtie == Cardinality({p \in P : xs[p[1]] = xs[p[2]]})
        ytie == Cardinality({p \in P : ys[p[1]] = ys[p[2]]})
        tot == Cardinality(P)
    IN  CorrVal(con - dis, (tot - xtie) * (tot - ytie))

\* One coefficient of DataFrame.corr(method), of columns x and y.
CorrEntry(method, x, y, same) ==
    LET rows == PairRows(x, y)
        xs == Pick(x, rows)
        ys == Pick(y, rows)
    IN  IF Len(rows) < 1 THEN NaN
        ELSE IF method = "pearson" THEN PearsonOf(xs, ys)
        ELSE IF method = "spearman" THEN SpearmanOf(xs, ys)
        ELSE IF same THEN One
        ELSE KendallOf(xs, ys)

CorrMethods == {"pearson", "spearman", "kendall"}

IsStrong(v) == v # NaN /\ RLt(Rat(49, 100), v.sq)

\* Mutant: the pair loop keeps every i # j instead of the upper triangle.
StrongPairs_BothTriangles(k) ==
    LET all == [q \in 1..(k * k) |-> <<((q - 1) \div k) + 1, ((q - 1) % k) + 1>>]
    IN  SelectSeq(all, LAMBDA p : p[1] # p[2])

\* for i, col1 ...: for j, col2 ...: if i < j, in loop order.
StrongPairs(k) ==
    LET all == [q \in 1..(k * k) |-> <<((q - 1) \div k) + 1, ((q - 1) % k) + 1>>]
    IN  SelectSeq(all, LAMBDA p : p[1] < p[2])

calculate_correlation_matrix(t, method) ==
    LET num == NumericCols(t)
        k == Len(num)
        name(i) == t[num[i]].name
        \* corr() computes one triangle and mirrors it: pearson and spearman
        \* take (x, y) = (later column, earlier column), kendall the reverse.
        entry(i, j) ==
            LET lo == IF i <= j THEN i ELSE j
                hi == IF i <= j THEN j ELSE i
            IN  IF method = "kendall"
                THEN CorrEntry(method, t[num[lo]].cells, t[num[hi]].cells, i = j)
                ELSE CorrEntry(method, t[num[hi]].cells, t[num[lo]].cells, i = j)
        pos(a) == CHOOSE i \in 1..k : name(i) = a
        strong == SelectSeq(StrongPairs(k), LAMBDA p : IsStrong(entry(p[1], p[2])))
    IN  IF NRows(t) = 0 \/ k < 2
        THEN [error |-> "Need at least 2 numeric columns"]
        ELSE [matrix |-> [a \in {name(i) : i \in 1..k} |->
                            [b \in {name(i) : i \in 1..k} |->
                                entry(pos(b), pos(a))]],
              columns |-> [i \in 1..k |-> name(i)],
              method |-> method,
              strong_correlations |->
                  [q \in 1..Len(strong) |->
                      LET v == entry(strong[q][1], strong[q][2])
                      IN  [column1 |-> name(strong[q][1]),
                           column2 |-> name(strong[q][2]),
                           correlation |-> v,
                           strength |-> IF v.sign = 1 /\ IsStrong(v)
                                        THEN "strong positive"
                                        ELSE "strong negative"]]]

CorrelationDf(t) == t

\* GET /{dataset_id}/correlation
GetCorrelation ==
    \E method \in CorrMethods :
        /\ Serve([fn |-> "correlation", method |-> method],
                 calculate_correlation_matrix(df, method))
        /\ df' = CorrelationDf(df)
        /\ UNCHANGED prev

\* The tables of the correlation requests: two free numeric columns around
\* one companion; no rows at all is the header-only file.
CorrTable(t) ==
    \E r \in {0, CorrRows} :
        \E ca \in [1..r -> NumCells(0..2)], cb \in [1..r -> NumCells(0..1)],
           extra \in Companions("m", r) \ {<<>>} :
            t = <<MakeColumn("a", "number", ca)>> \o extra
                    \o <<MakeColumn("b", "number", cb)>>

InitCorr == CorrTable(df) /\ InitIdle
NextCorr == GetCorrelation
SpecCorr == InitCorr /\ [][NextCorr]_vars

NumericNames(t) == {t[i].name : i \in {j \in 1..Len(t) : t[j].dtype = "number"}}

\* Two or more distinct values: the column's variance is defined and nonzero.
NonzeroVariance(t, nm) ==
    Cardinality({c \in {Col(t, nm).cells[i] : i \in 1..NRows(t)} : ~IsNA(c)}) >= 2

\* C2: the correlation matrix is indexed by the numeric columns, symmetric,
\* and 1.0 on the diagonal for every column with nonzero variance.
C2_SymmetricUnitDiagonal ==
    (call.fn = "correlation" /\ Cardinality(NumericNames(df)) >= 2 /\ NRows(df) > 0) =>
        /\ "matrix" \in DOMAIN result
        /\ DOMAIN result.matrix = NumericNames(df)
        /\ \A a \in NumericNames(df) :
            /\ DOMAIN result.matrix[a] = NumericNames(df)
            /\ \A b \in NumericNames(df) : result.matrix[a][b] = result.matrix[b][a]
            /\ NonzeroVariance(df, a) => result.matrix[a][a] = One

\* Three numeric columns, a defined off-diagonal coefficient other than +-1,
\* an undefined one, and a unit diagonal entry of a column with missing cells.
C2_Witness ==
    /\ call.fn = "correlation"
    /\ "matrix" \in DOMAIN result
    /\ Cardinality(NumericNames(df)) = 3
    /\ \E a, b \in NumericNames(df) :
        /\ a # b
        /\ result.matrix[a][b] # NaN
        /\ result.matrix[a][b].sq \notin {Float(0), Float(1)}
    /\ \E a, b \in NumericNames(df) : result.matrix[a][b] = NaN
    /\ \E a \in NumericNames(df) :
        /\ NonzeroVariance(df, a)
        /\ NACount(Col(df, a).cells) > 0
        /\ result.matrix[a][a] = One

\* Position of a column among the numeric columns, in column order.
NumPos(t, nm) == CHOOSE i \in 1..Len(NumericCols(t)) : t[NumericCols(t)[i]].name = nm

StrongValue(v) == v # NaN /\ 100 * v.sq.n > 49 * v.sq.d

\* C3: strong_correlations lists, once each, exactly the pairs (a, b) of
\* numeric columns with a before b and |r| > 0.7, tagged by the sign of r.
C3_StrongPairsExact ==
    (call.fn = "correlation" /\ "strong_correlations" \in DOMAIN result) =>
        LET sc == result.strong_correlations
            M == result.matrix
        IN  /\ \A q \in 1..Len(sc) :
                /\ sc[q].column1 \in NumericNames(df)
                /\ sc[q].column2 \in NumericNames(df)
                /\ NumPos(df, sc[q].column1) < NumPos(df, sc[q].column2)
                /\ StrongValue(M[sc[q].column1][sc[q].column2])
                /\ sc[q].correlation = M[sc[q].column1][sc[q].column2]
                /\ sc[q].strength = IF sc[q].correlation.sign = 1
                                    THEN "strong positive" ELSE "strong negative"
            /\ \A q1, q2 \in 1..Len(sc) :
                (sc[q1].column1 = sc[q2].column1 /\ sc[q1].column2 = sc[q2].column2)
                    => q1 = q2
            /\ \A a, b \in NumericNames(df) :
                (NumPos(df, a) < NumPos(df, b) /\ StrongValue(M[a][b])) =>
                    \E q \in 1..Len(sc) : sc[q].column1 = a /\ sc[q].column2 = b

\* A strong positive and a strong negative pair are listed while a weaker
\* defined pair is left out.
C3_Witness ==
    /\ call.fn = "correlation"
    /\ "strong_correlations" \in DOMAIN result
    /\ \E q \in 1..Len(result.strong_correlations) :
        result.strong_correlations[q].strength = "strong positive"
    /\ \E q \in 1..Len(result.strong_correlations) :
        result.strong_correlations[q].strength = "strong negative"
    /\ \E a, b \in NumericNames(df) :
        /\ NumPos(df, a) < NumPos(df, b)
        /\ result.matrix[a][b] # NaN
        /\ ~StrongValue(result.matrix[a][b])

-----------------------------------------------------------------------------
(* analyzer.detect_outliers.  A threshold is a positive rational.          *)

MaxOutlierValues == 100

\* Mutant: the bounds themselves count as outliers.
IqrFlag_Inclusive(v, lower, upper) == RLe(Float(v), lower) \/ RLe(upper, Float(v))

\* (col_data < lower_bound) | (col_data > upper_bound)
IqrFlag(v, lower, upper) == RLt(Float(v), lower) \/ RLt(upper, Float(v))

IqrLower(xs, t) ==
    RSub(Quantile(xs, 1, 4), RMul(t, RSub(Quantile(xs, 3, 4), Quantile(xs, 1, 4))))

IqrUpper(xs, t) ==
    RAdd(Quantile(xs, 3, 4), RMul(t, RSub(Quantile(xs, 3, 4), Quantile(xs, 1, 4))))

\* np.abs(stats.zscore(col_data)) > threshold, population standard deviation:
\* |v - S/n| > t * sqrt((n*Q - S^2) / n^2), for n values of sum S and sum of
\* squares Q; 0/0 is NaN, which compares false.
ZFlag(n, S, Q, v, t) ==
    t.d * t.d * (n * v - S) * (n * v - S) > t.n * t.n * (n * Q - S * S)

\* The flagged values of a column, in row order.
Outliers(xs, method, t) ==
    IF method = "iqr"
    THEN LET lower == IqrLower(xs, t)
             upper == IqrUpper(xs, t)
         IN  SelectSeq(xs, LAMBDA v : IqrFlag(v, lower, upper))
    ELSE LET n == Len(xs)
             S == SumSeq(xs)
             Q == SumSq(xs)
         IN  SelectSeq(xs, LAMBDA v : ZFlag(n, S, Q, v, t))

\* Mutant: the count taken from the truncated list.
OutlierCount_Capped(outliers) == Min2(Len(outliers), MaxOutlierValues)

\* int(len(outliers))
OutlierCount(outliers) == Len(outliers)

\* outliers.tolist()[:100]
CapValues(outliers) == SubSeq(outliers, 1, Min2(Len(outliers), MaxOutlierValues))

OutlierRecord(xs, method, t) ==
    LET outliers == Outliers(xs, method, t)
        base == [count |-> OutlierCount(outliers),
                 percentage |-> Rat(Len(outliers) * 100, Len(xs)),
                 values |-> CapValues(outliers),
                 min_outlier |-> IF Len(outliers) > 0 THEN Float(SeqMin(outliers)) ELSE None,
                 max_outlier |-> IF Len(outliers) > 0 THEN Float(SeqMax(outliers)) ELSE None,
                 method |-> method,
                 threshold |-> t]
    IN  IF method = "iqr"
        THEN [k \in DOMAIN base \cup {"lower_bound", "upper_bound"} |->
                 IF k = "lower_bound" THEN IqrLower(xs, t)
                 ELSE IF k = "upper_bound" THEN IqrUpper(xs, t)
                 ELSE base[k]]
        ELSE base

\* Mutant: no check for a table without numeric columns.
detect_outliers_NoSignal(t, method, threshold) ==
    LET S == IF method \in {"iqr", "zscore"} THEN NonEmptyNumeric(t) ELSE {}
    IN  [nm \in {t[i].name : i \in S} |->
            OutlierRecord(DropNA(t[NameIndex(t, S, nm)].cells), method, threshold)]

detect_outliers(t, method, threshold) ==
    IF NumericCols(t) = <<>> \/ NRows(t) = 0
    THEN [error |-> "No numeric columns found"]
    ELSE LET S == IF method \in {"iqr", "zscore"} THEN NonEmptyNumeric(t) ELSE {}
         IN  [nm \in {t[i].name : i \in S} |->
                 OutlierRecord(DropNA(t[NameIndex(t, S, nm)].cells), method, threshold)]

\* Mutant: the detector filters the flagged rows out of the caller's table.
OutliersDf_DropsFlagged(t, method, threshold) ==
    [i \in 1..Len(t) |->
        IF t[i].dtype = "number" /\ DropNA(t[i].cells) # <<>>
        THEN LET out == Outliers(DropNA(t[i].cells), method, threshold)
                 flagged == {out[q] : q \in 1..Len(out)}
             IN  [t[i] EXCEPT !.cells =
                     [r \in 1..Len(t[i].cells) |->
                         IF IsNA(t[i].cells[r]) \/ t[i].cells[r][1] \in flagged
                         THEN <<>> ELSE t[i].cells[r]]]
        ELSE t[i]]

\* The table after the call: the detector works on select_dtypes() and
\* dropna() copies and assigns to none of the caller's columns.
OutliersDf(t, method, threshold) == t

OutlierMethods == {"iqr", "zscore"}

\* threshold: float = Query(1.5, gt=0): the values requests carry.
Thresholds == {Rat(1, 2), Rat(3, 2), Rat(3, 1)}

DefaultThreshold == Rat(3, 2)

\* GET /{dataset_id}/outliers
GetOutliers ==
    \E method \in OutlierMethods, th \in Thresholds \cup {None} :
        LET threshold == IF th = None THEN DefaultThreshold ELSE th
        IN  /\ Serve([fn |-> "outliers", method |-> method, given |-> th,
                      threshold |-> threshold],
                     detect_outliers(df, method, threshold))
            /\ df' = OutliersDf(df, method, threshold)
            /\ UNCHANGED prev

\* detect_outliers called once more on the same DataFrame object, with the
\* same method and threshold.
RepeatOutliers ==
    /\ call.fn = "outliers"
    /\ prev.result = NoResult
    /\ prev' = [call |-> call, result |-> result]
    /\ result' = detect_outliers(df, call.method, call.threshold)
    /\ df' = OutliersDf(df, call.method, call.threshold)
    /\ UNCHANGED <<call, files, datasets, response, users, tokens>>

Repeat(c, n) == [i \in 1..n |-> c]

\* A run of n equal cells or a single cell.
Blocks == {Repeat(c, n) : c \in NumCells({0, 10, 20}), n \in {1, BlockLen}}

\* The documented example x = [1, 2, 3, 4, 5, 100].
ScenarioColumn == <<<<1>>, <<2>>, <<3>>, <<4>>, <<5>>, <<100>>>>

OutlierTable(t) ==
    \/ \E r \in 0..OutRows :
        \E cs \in [1..r -> NumCells({0, 1, 2, 9})], extra \in Companions("b", r) :
            t = <<MakeColumn("a", "number", cs)>> \o extra
    \/ \E b1 \in Blocks, b2 \in Blocks, b3 \in Blocks :
            t = <<MakeColumn("a", "number", b1 \o b2 \o b3)>>
    \/ t = <<MakeColumn("x", "number", ScenarioColumn)>>

InitOutliers == OutlierTable(df) /\ InitIdle
NextOutliers == GetOutliers \/ RepeatOutliers
SpecOutliers == InitOutliers /\ [][NextOutliers]_vars

IsError(r) == "error" \in DOMAIN r

OutlierResult == call.fn = "outliers" /\ ~IsError(result)

SeqSet(xs) == {xs[i] : i \in 1..Len(xs)}

\* C4: under method iqr a non-missing value is flagged iff it lies strictly
\* outside [Q1 - t*IQR, Q3 + t*IQR], and the record reports those two bounds;
\* x = [1,2,3,4,5,100] with t = 1.5 has upper bound 8.5 and flags only 100.
C4_IqrStrictlyOutside ==
    (OutlierResult /\ call.method = "iqr") =>
        /\ \A nm \in DOMAIN result :
            LET xs == DropNA(Col(df, nm).cells)
                rec == result[nm]
                q1 == Quantile(xs, 1, 4)
                q3 == Quantile(xs, 3, 4)
                lo == RSub(q1, RMul(call.threshold, RSub(q3, q1)))
                hi == RAdd(q3, RMul(call.threshold, RSub(q3, q1)))
                outside(v) == v * lo.d < lo.n \/ v * hi.d > hi.n
            IN  /\ rec.lower_bound = lo
                /\ rec.upper_bound = hi
                /\ rec.count = Cardinality({i \in 1..Len(xs) : outside(xs[i])})
                /\ rec.count <= MaxOutlierValues =>
                       \A i \in 1..Len(xs) : xs[i] \in SeqSet(rec.values) <=> outside(xs[i])
        /\ (df[1].cells = ScenarioColumn /\ call.threshold = Rat(3, 2)) =>
               /\ result.x.upper_bound = Rat(17, 2)
               /\ result.x.values = <<100>>
               /\ result.x.count = 1

\* A column with a value on a bound that is left unflagged beside a value
\* that is flagged.
C4_Witness ==
    /\ OutlierResult
    /\ call.method = "iqr"
    /\ \E nm \in DOMAIN result :
        /\ result[nm].count > 0
        /\ result[nm].lower_bound # result[nm].upper_bound
        /\ \E v \in SeqSet(DropNA(Col(df, nm).cells)) :
            /\ Float(v) \in {result[nm].lower_bound, result[nm].upper_bound}
            /\ v \notin SeqSet(result[nm].values)

\* C5: values is the first min(count, 100) flagged values in row order; count,
\* percentage, min_outlier and max_outlier are taken over all flagged values,
\* the last two being None exactly when nothing is flagged.
C5_CapLeavesTotals ==
    OutlierResult =>
        \A nm \in DOMAIN result :
            LET xs == DropNA(Col(df, nm).cells)
                rec == result[nm]
                flagged == Outliers(xs, call.method, call.threshold)
            IN  /\ rec.count = Len(flagged)
                /\ rec.values = SubSeq(flagged, 1, Min2(rec.count, 100))
                /\ rec.percentage = Rat(rec.count * 100, Len(xs))
                /\ (rec.min_outlier = None) <=> (rec.count = 0)
                /\ (rec.max_outlier = None) <=> (rec.count = 0)
                /\ rec.count > 0 =>
                    /\ rec.min_outlier = Float(SeqMin(flagged))
                    /\ rec.max_outlier = Float(SeqMax(flagged))

\* More than 100 flagged values, the largest of them beyond the cap.
C5_Witness ==
    /\ OutlierResult
    /\ \E nm \in DOMAIN result :
        /\ result[nm].count > 100
        /\ Len(result[nm].values) = 100
        /\ \A q \in 1..100 : Float(result[nm].values[q]) # result[nm].max_outlier

-----------------------------------------------------------------------------
(* visualizer.prepare_pie_chart_data.  A label is <<dtype, value>>; the    *)
(* text with code 0 is the text "Other".                                   *)

OtherLabel == <<"object", 0>>

\* Python None passed for an optional column name.
NoColumn == "<None>"

HasColumn(t, nm) == nm \in ColNames(t)

\* The group keys: the distinct non-missing cells of the category column
\* (value_counts() and groupby() both drop missing keys).
GroupKeys(t, cat) ==
    {c[1] : c \in {x \in SeqSet(Col(t, cat).cells) : ~IsNA(x)}}

\* Per row, what it adds to the group `key`: 1 under value_counts(), its
\* value under groupby(cat)[val].sum() (a missing value adds 0), and 0 when
\* the row is of another group.
GroupTerms(t, cat, val, key) ==
    [r \in 1..NRows(t) |->
        IF Col(t, cat).cells[r] # <<key>> THEN 0
        ELSE IF val = NoColumn THEN 1
        ELSE IF IsNA(Col(t, val).cells[r]) THEN 0
        ELSE Col(t, val).cells[r][1]]

\* value_counts()[key], or groupby(cat)[val].sum()[key].
GroupValue(t, cat, val, key) == SumSeq(GroupTerms(t, cat, val, key))

\* The orders a descending sort may leave the groups in (ties in any order).
GroupOrders(t, cat, val) ==
    IF ~HasColumn(t, cat) \/ (val # NoColumn /\ ~HasColumn(t, val)) THEN {<<>>}
    ELSE
    LET keys == GroupKeys(t, cat)
        n == Cardinality(keys)
    IN  {o \in [1..n -> keys] :
            /\ \A i, j \in 1..n : i # j => o[i] # o[j]
            /\ \A i \in 1..(n - 1) :
                   GroupValue(t, cat, val, o[i]) >= GroupValue(t, cat, val, o[i + 1])}

\* Mutant: the remainder summed from position top_n + 1 on.
OtherValue_SkipsOne(values, top_n) == SumSeq(SubSeq(values, top_n + 2, Len(values)))

\* grouped.iloc[top_n:].sum()
OtherValue(values, top_n) == SumSeq(SubSeq(values, top_n + 1, Len(values)))

\* The payload for the groups in sorted order `order`.
prepare_pie_chart_data(t, cat, val, top_n, order) ==
    IF ~HasColumn(t, cat) THEN [error |-> "Column not found", column |-> cat]
    ELSE IF val # NoColumn /\ ~HasColumn(t, val) THEN [error |-> "Column not found", column |-> val]
    ELSE LET n == Len(order)
             labels == [i \in 1..n |-> <<Col(t, cat).dtype, order[i]>>]
             values == [i \in 1..n |-> GroupValue(t, cat, val, order[i])]
             head == Min2(n, top_n)
         IN  [type |-> "pie",
              labels |-> IF n > top_n THEN SubSeq(labels, 1, head) \o <<OtherLabel>>
                         ELSE SubSeq(labels, 1, head),
              values |-> IF n > top_n
                         THEN SubSeq(values, 1, head) \o <<OtherValue(values, top_n)>>
                         ELSE SubSeq(values, 1, head),
              category_column |-> cat,
              value_column |-> IF val = NoColumn THEN "count" ELSE val]

PieDf(t) == t

\* POST /{dataset_id}/visualize/pie
CreatePieChart ==
    \E cat \in {"c"}, val \in {NoColumn, "v"}, top_n \in 1..PieTopN :
        \E order \in GroupOrders(df, cat, val) :
            /\ Serve([fn |-> "pie", category_column |-> cat, value_column |-> val,
                      top_n |-> top_n],
                     prepare_pie_chart_data(df, cat, val, top_n, order))
            /\ df' = PieDf(df)
            /\ UNCHANGED prev

\* A category column (text, code 0 being "Other") beside a numeric column.
PieTable(t) ==
    \E r \in 0..PieRows :
        \E cc \in [1..r -> NumCells(0..2)], cv \in [1..r -> NumCells({-1, 2})] :
            t = <<MakeColumn("c", "object", cc), MakeColumn("v", "number", cv)>>

InitPie == PieTable(df) /\ InitIdle
NextPie == CreatePieChart
SpecPie == InitPie /\ [][NextPie]_vars

PieResult == call.fn = "pie" /\ ~IsError(result) /\ "values" \in DOMAIN result

\* C7: the returned values sum to the total over all groups; the list ends
\* with the added Other bucket, top_n + 1 entries in all, iff there are more
\* than top_n groups, and has one entry per group otherwise.
C7_PieTotalPreserved ==
    PieResult =>
        LET cat == call.category_column
            val == call.value_column
            rows == {r \in 1..NRows(df) : ~IsNA(Col(df, cat).cells[r])}
            groups == {Col(df, cat).cells[r] : r \in rows}
            weight == [r \in 1..NRows(df) |->
                          IF r \notin rows THEN 0
                          ELSE IF val = NoColumn THEN 1
                          ELSE IF IsNA(Col(df, val).cells[r]) THEN 0
                          ELSE Col(df, val).cells[r][1]]
            k == Cardinality(groups)
            n == Len(result.labels)
        IN  /\ SumSeq(result.values) = SumSeq(weight)
            /\ Len(result.values) = n
            /\ k > call.top_n =>
                   /\ n = call.top_n + 1
                   /\ result.labels[n] = OtherLabel
                   /\ \A i \in 1..(n - 1) : <<result.labels[i][2]>> \in groups
            /\ k <= call.top_n =>
                   /\ n = k
                   /\ {<<result.labels[i][2]>> : i \in 1..n} = groups

\* Three groups cut to two slices and a non-zero Other bucket, summed values.
C7_Witness ==
    /\ PieResult
    /\ call.value_column # NoColumn
    /\ call.top_n = 2
    /\ Len(result.labels) = 3
    /\ result.values[3] # 0
    /\ result.values[1] # 0

-----------------------------------------------------------------------------
(* visualizer.prepare_histogram_data                                       *)

MinBins == 5
MaxBins == 100

prepare_histogram_data(t, column, bins) ==
    IF ~HasColumn(t, column) THEN [error |-> "Column not found", column |-> column]
    ELSE IF Col(t, column).dtype # "number"
    THEN [error |-> "Column is not numeric", column |-> column]
    ELSE LET xs == DropNA(Col(t, column).cells)
             edges == BinEdges(xs, bins)
         IN  [type |-> "histogram",
              column |-> column,
              labels |-> [k \in 1..bins |-> <<Round2(edges[k]), Round2(edges[k + 1])>>],
              values |-> BinCounts(xs, bins),
              bin_edges |-> edges,
              total_count |-> Len(xs),
              mean |-> IF xs = <<>> THEN NaN ELSE Mean(xs),
              median |-> IF xs = <<>> THEN NaN ELSE Quantile(xs, 1, 2),
              variance |-> IF xs = <<>> THEN NaN ELSE Variance(xs)]

HistogramDf(t) == t

\* POST /{dataset_id}/visualize/histogram, bins: Query(20, ge=5, le=100)
CreateHistogram ==
    \E column \in {"a", "b"}, bins \in {MinBins, MinBins + 1, MaxBins} :
        /\ Serve([fn |-> "histogram", column |-> column, bins |-> bins],
                 prepare_histogram_data(df, column, bins))
        /\ df' = HistogramDf(df)
        /\ UNCHANGED prev

\* A numeric column beside one companion.
HistTable(t) ==
    \E r \in 0..HistRows :
        \E cs \in [1..r -> NumCells({0, 1, 4})], extra \in Companions("b", r) :
            t = <<MakeColumn("a", "number", cs)>> \o extra

InitHist == HistTable(df) /\ InitIdle
NextHist == CreateHistogram
SpecHist == InitHist /\ [][NextHist]_vars

HistResult == call.fn = "histogram" /\ ~IsError(result)

\* C8: b counts, b labels and b + 1 edges; the counts sum to the number of
\* non-missing values of the column, which is total_count.
C8_HistogramCountsAll ==
    /\ (call.fn = "histogram" /\ HasColumn(df, call.column)
            /\ Col(df, call.column).dtype = "number") => ~IsError(result)
    /\ HistResult =>
        LET cells == Col(df, call.column).cells
            present == Cardinality({r \in 1..Len(cells) : ~IsNA(cells[r])})
        IN  /\ Len(result.values) = call.bins
            /\ Len(result.labels) = call.bins
            /\ Len(result.bin_edges) = call.bins + 1
            /\ SumSeq(result.values) = present
            /\ result.total_count = present

\* A column with missing cells whose values fall in the first, an inner and
\* the last bin.
C8_Witness ==
    /\ HistResult
    /\ result.total_count >= 3
    /\ result.total_count < NRows(df)
    /\ result.values[1] > 0
    /\ result.values[call.bins] > 0
    /\ \E k \in 2..(call.bins - 1) : result.values[k] > 0

-----------------------------------------------------------------------------
(* data_processor.read_dataset and the endpoints that call it.  A stored   *)
(* file is [kind]: "zero_bytes" (no content), "header_only" (a header line *)
(* or sheet row, or an empty JSON array, and no data row), "rows" (well    *)
(* formed data), "malformed" (not parseable as any format: ragged rows).   *)

\* An extension outside the allowed ones, as a request may carry.
OtherExtensions == {"txt"}

ALLOWED_EXTENSIONS == {"csv", "xlsx", "xls", "json"}

FileKinds == {"zero_bytes", "header_only", "rows", "malformed"}

HeaderOnlyTable == <<MakeColumn("a", "object", <<>>)>>

RowsTable == <<MakeColumn("a", "number", <<<<1>>, <<2>>>>)>>

Parsed(kind) == IF kind = "rows" THEN RowsTable ELSE HeaderOnlyTable

\* What the parser call of each branch does: returns a DataFrame or raises.
\* pd.read_csv raises EmptyDataError on no content and ParserError on ragged
\* rows; read_excel and read_json raise other exceptions (BadZipFile,
\* ValueError) on both; every other file_type raises the HTTPException of
\* the else branch inside the try block.
TryBody(kind, file_type) ==
    IF file_type \notin ALLOWED_EXTENSIONS THEN [raised |-> "HTTPException"]
    ELSE IF kind \in {"header_only", "rows"} THEN [raised |-> "", df |-> Parsed(kind)]
    ELSE IF file_type = "csv"
    THEN [raised |-> IF kind = "zero_bytes" THEN "EmptyDataError" ELSE "ParserError"]
    ELSE [raised |-> IF file_type = "json" THEN "ValueError" ELSE "BadZipFile"]

\* The except clauses, in order; HTTPException is an Exception.
read_dataset(kind, file_type) ==
    LET body == TryBody(kind, file_type)
    IN  IF body.raised = "" THEN [ok |-> TRUE, df |-> body.df]
        ELSE IF body.raised = "EmptyDataError"
        THEN [ok |-> FALSE, status |-> 400, detail |-> "File is empty"]
        ELSE IF body.raised = "ParserError"
        THEN [ok |-> FALSE, status |-> 400, detail |-> "File format is invalid or corrupted"]
        ELSE [ok |-> FALSE, status |-> 500, detail |-> "Error reading file"]

\* POST /upload: save_upload_file checks the extension and stores the file;
\* a read failure deletes it again and answers 400.
UploadDataset ==
    \E ext \in ALLOWED_EXTENSIONS \cup OtherExtensions, kind \in FileKinds :
        /\ Len(datasets) < MaxDatasets
        /\ IF ext \notin ALLOWED_EXTENSIONS
           THEN /\ response' = [status |-> 400, detail |-> "File type not allowed"]
                /\ UNCHANGED <<files, datasets>>
           ELSE LET r == read_dataset(kind, ext)
                IN  IF r.ok
                    THEN /\ files' = Append(files, [kind |-> kind])
                         /\ datasets' = Append(datasets,
                                [file_path |-> Len(files) + 1, filename_ext |-> ext,
                                 file_type |-> ext, row_count |-> NRows(r.df)])
                         /\ response' = [status |-> 201, detail |-> "Dataset uploaded successfully"]
                    ELSE /\ response' = [status |-> 400, detail |-> "Error processing file"]
                         /\ UNCHANGED <<files, datasets>>
        /\ UNCHANGED <<df, call, result, prev, users, tokens>>

\* PUT /{dataset_id}: dataset.filename = new_filename, any non-blank name.
UpdateDataset ==
    \E id \in 1..Len(datasets), ext \in ALLOWED_EXTENSIONS \cup OtherExtensions :
        /\ datasets' = [datasets EXCEPT ![id].filename_ext = ext]
        /\ response' = [status |-> 200, detail |-> "updated"]
        /\ UNCHANGED <<df, call, result, prev, files, users, tokens>>

\* GET /{dataset_id}/statistics on a stored dataset: the file type is the
\* extension of dataset.filename, the table is what read_dataset returns.
GetStoredStatistics ==
    \E id \in 1..Len(datasets) :
        LET file_type == datasets[id].filename_ext
            kind == files[datasets[id].file_path].kind
            r == read_dataset(kind, file_type)
        IN  /\ IF r.ok
               THEN /\ df' = r.df
                    /\ call' = [fn |-> "statistics", kind |-> kind, file_type |-> file_type,
                                dataset_id |-> id]
                    /\ result' = calculate_descriptive_statistics(r.df, TRUE)
                    /\ response' = [status |-> 200, detail |-> "OK"]
               ELSE /\ call' = [fn |-> "read_dataset", kind |-> kind, file_type |-> file_type,
                                dataset_id |-> id]
                    /\ result' = NoResult
                    /\ response' = [status |-> r.status, detail |-> r.detail]
                    /\ UNCHANGED df
            /\ UNCHANGED <<prev, files, datasets, users, tokens>>

\* read_dataset called directly on a source of any content.
ReadDataset ==
    \E kind \in FileKinds, file_type \in ALLOWED_EXTENSIONS \cup OtherExtensions :
        LET r == read_dataset(kind, file_type)
        IN  /\ call' = [fn |-> "read_dataset", kind |-> kind, file_type |-> file_type]
            /\ result' = NoResult
            /\ response' = IF r.ok THEN [status |-> 200, detail |-> "OK"]
                           ELSE [status |-> r.status, detail |-> r.detail]
            /\ df' = IF r.ok THEN r.df ELSE df
            /\ UNCHANGED <<prev, files, datasets, users, tokens>>

InitLoader == df = <<>> /\ InitIdle
NextLoader == UploadDataset \/ UpdateDataset \/ GetStoredStatistics \/ ReadDataset
SpecLoader == InitLoader /\ [][NextLoader]_vars

\* C9: read_dataset answers empty input, malformed input and an unsupported
\* format with three different failures, none of them the generic
\* "Error reading file" one.
C9_ThreeDistinctFailures ==
    call.fn = "read_dataset" =>
        /\ call.file_type \notin ALLOWED_EXTENSIONS =>
               /\ response.status = 400
               /\ response.detail \notin {"Error reading file", "File is empty",
                                          "File format is invalid or corrupted"}
        /\ (call.file_type \in ALLOWED_EXTENSIONS /\ call.kind = "zero_bytes") =>
               response = [status |-> 400, detail |-> "File is empty"]
        /\ (call.file_type \in ALLOWED_EXTENSIONS /\ call.kind = "malformed") =>
               response = [status |-> 400, detail |-> "File format is invalid or corrupted"]

\* C10: a source with no data row fails to load with the empty-input error,
\* so no dataset of zero rows is stored and no analysis runs on a zero-row
\* table.
C10_ZeroRowsRejected ==
    /\ \A id \in 1..Len(datasets) : datasets[id].row_count > 0
    /\ call.fn = "statistics" => NRows(df) > 0
    /\ (call.fn = "read_dataset" /\ call.file_type \in ALLOWED_EXTENSIONS
            /\ call.kind \in {"zero_bytes", "header_only"}) =>
           response = [status |-> 400, detail |-> "File is empty"]

-----------------------------------------------------------------------------
(* The statistics engine and the outlier detector on tables of every        *)
(* column make-up: no column at all, text columns only, numeric columns     *)
(* with or without values, with or without rows.                            *)

\* A numeric column of a table without rows: pd.read_json of '{"a": {}}'
\* (the JSON reader converts the empty column to float64), or a DataFrame
\* built with an explicit dtype.
EmptyNumericColumn(name) == [name |-> name, dtype |-> "number", cells |-> <<>>]

KindsTable(t) ==
    \/ t = <<>>
    \/ t = <<EmptyNumericColumn("a")>>
    \/ \E r \in 0..KindRows, kind \in {"number", "object"} :
        \E cs \in [1..r -> IF kind = "number" THEN NumCells(0..1) ELSE StrCells],
           extra \in Companions("b", r) :
            t = <<MakeColumn("a", kind, cs)>> \o extra

InitKinds == KindsTable(df) /\ InitIdle
NextKinds == GetStatistics \/ GetOutliers
SpecKinds == InitKinds /\ [][NextKinds]_vars

HasNumericColumn(t) == \E i \in 1..Len(t) : t[i].dtype = "number"

\* C11: on a table without numeric columns the statistics engine and the
\* outlier detector return exactly the 'No numeric columns found' signal,
\* never a result without error key and without entries.
C11_NoNumericSignal ==
    (call.fn \in {"statistics", "outliers"} /\ ~HasNumericColumn(df)) =>
        result = [error |-> "No numeric columns found"]

\* The outlier detector has answered for a table of text cells.
C11_Witness ==
    /\ call.fn = "outliers"
    /\ ~HasNumericColumn(df)
    /\ NRows(df) > 0
    /\ IsError(result)

\* C12: on a table with at least one numeric column the statistics engine
\* returns no error signal, the keys of 'statistics' are the numeric columns
\* with a non-missing value, and 'distributions', when asked for, has the
\* same keys.
C12_StatisticsKeys ==
    (call.fn = "statistics" /\ HasNumericColumn(df)) =>
        /\ ~IsError(result)
        /\ DOMAIN result.statistics = {df[i].name : i \in NonEmptyNumeric(df)}
        /\ call.include_distributions =>
               DOMAIN result.distributions = DOMAIN result.statistics

\* C13: every outlier record reports the caller's threshold when one was
\* given, and otherwise 1.5 under method iqr and 3 under method zscore.
C13_MethodDefaults ==
    OutlierResult =>
        \A nm \in DOMAIN result :
            result[nm].threshold =
                IF call.given # None THEN call.given
                ELSE IF call.method = "iqr" THEN Rat(3, 2) ELSE Float(3)

-----------------------------------------------------------------------------
(* analyzer.analyze_trends.  Its tables have a third dtype, "datetime64",   *)
(* whose cells <<ts>> are timestamps (<<>> is NaT).  The texts of their     *)
(* object columns are coded in string order: 11, 12, 13 are the date        *)
(* strings "10/1/2024", "11/1/2024", "9/1/2024"; 21 and 22 are the texts    *)
(* "s21", "s22", which are no dates.                                        *)

DateTexts == {11, 12, 13}

PlainTexts == {21, 22}

\* The day of the year 2024 a date string names.
DayOf(k) == CASE k = 11 -> 275 [] k = 12 -> 306 [] k = 13 -> 245

Indices(t) == [i \in 1..Len(t) |-> i]

\* Whether pd.to_datetime(df[col]) returns: numbers are taken as epoch
\* offsets and missing cells as NaT; a text that is no date raises.
ToDatetimeOk(col) ==
    col.dtype = "object" =>
        \A i \in 1..Len(col.cells) : IsNA(col.cells[i]) \/ col.cells[i][1] \in DateTexts

\* df[col] = pd.to_datetime(df[col])
to_datetime(col) ==
    [name |-> col.name,
     dtype |-> "datetime64",
     cells |-> [i \in 1..Len(col.cells) |->
                  IF IsNA(col.cells[i]) THEN <<>>
                  ELSE IF col.dtype = "object" THEN <<DayOf(col.cells[i][1])>>
                  ELSE col.cells[i]]]

\* The columns the conversion loop would not `continue` past.
ConvertibleCols(t) == SelectSeq(Indices(t), LAMBDA i : ToDatetimeOk(t[i]))

\* The auto-detection block: the table as the block leaves it and the name
\* it found (NoColumn for None).
DetectDateColumn(t) ==
    LET date_cols == SelectSeq(Indices(t), LAMBDA i : t[i].dtype = "datetime64")
        ok == ConvertibleCols(t)
    IN  IF date_cols # <<>> THEN [df |-> t, date_column |-> t[date_cols[1]].name]
        ELSE IF ok = <<>> THEN [df |-> t, date_column |-> NoColumn]
        ELSE [df |-> [t EXCEPT ![ok[1]] = to_datetime(t[ok[1]])],
              date_column |-> t[ok[1]].name]

\* How sort_values places rows of equal key: its default sort is not stable.
TieOrders == {"rows", "reversed"}

\* Mutant: the rows are sorted by descending date cell.
SortedRows_Descending(dates, values, tie) ==
    LET kept == SelectSeq([i \in 1..Len(dates) |-> i],
                          LAMBDA i : ~IsNA(dates[i]) /\ ~IsNA(values[i]))
    IN  SortSeq(kept, LAMBDA i, j :
            \/ dates[i][1] > dates[j][1]
            \/ dates[i][1] = dates[j][1] /\ (IF tie = "rows" THEN i < j ELSE i > j))

\* df[[date, value]].sort_values(date).dropna(): the rows holding both cells,
\* by ascending date cell.
SortedRows(dates, values, tie) ==
    LET kept == SelectSeq([i \in 1..Len(dates) |-> i],
                          LAMBDA i : ~IsNA(dates[i]) /\ ~IsNA(values[i]))
    IN  SortSeq(kept, LAMBDA i, j :
            \/ dates[i][1] < dates[j][1]
            \/ dates[i][1] = dates[j][1] /\ (IF tie = "rows" THEN i < j ELSE i > j))

\* Mutant: the window of the rolling mean slides one position late.
RollingMean_Late(ys, window) ==
    [i \in 1..Len(ys) |->
        IF i <= window THEN None
        ELSE Rat(SumRange(ys, i - window, i - 1), window)]

\* values.rolling(window).mean() with NaN turned into None.
RollingMean(ys, window) ==
    [i \in 1..Len(ys) |->
        IF i < window THEN None
        ELSE Rat(SumRange(ys, i - window + 1, i), window)]

\* stats.linregress(np.arange(n), y).slope
Slope(ys) ==
    LET n == Len(ys)
        sx == SumSeq([i \in 1..n |-> i - 1])
        sxx == SumSeq([i \in 1..n |-> (i - 1) * (i - 1)])
        sxy == SumSeq([i \in 1..n |-> (i - 1) * ys[i]])
    IN  Rat(n * sxy - sx * SumSeq(ys), n * sxx - sx * sx)

Direction(slope) ==
    IF RLt(Rat(1, 100), slope) THEN "increasing"
    ELSE IF RLt(slope, Rat(-1, 100)) THEN "decreasing"
    ELSE "stable"

\* Mutant: the growth rate taken relative to the last value.
GrowthRate_OverLast(first_value, last_value) ==
    IF last_value # 0 THEN Rat((last_value - first_value) * 100, last_value)
    ELSE Float(0)

GrowthRate(first_value, last_value) ==
    IF first_value # 0 THEN Rat((last_value - first_value) * 100, first_value)
    ELSE Float(0)

ShortWindow == 7
LongWindow == 30

\* The Trend Record of the date-sorted value series ys (r_squared and
\* p_value, which no property below reads, are left out).
TrendRecord(date_column, value_column, ys) ==
    LET n == Len(ys)
    IN  [date_column |-> date_column,
         value_column |-> value_column,
         data_points |-> n,
         direction |-> Direction(Slope(ys)),
         slope |-> Slope(ys),
         growth_rate_percentage |-> GrowthRate(ys[1], ys[n]),
         moving_average_7 |-> RollingMean(ys, Min2(ShortWindow, n)),
         moving_average_30 |-> RollingMean(ys, Min2(LongWindow, n)),
         start_value |-> Float(ys[1]),
         end_value |-> Float(ys[n]),
         min_value |-> Float(SeqMin(ys)),
         max_value |-> Float(SeqMax(ys)),
         mean_value |-> Mean(ys)]

\* From `df[[date_column, value_column]]` on.  Selecting a name that is no
\* column raises KeyError; selecting one name twice makes sort_values raise
\* ValueError (label not unique); the rolling mean of a column that is not
\* numeric raises DataError.
TrendOf(t, date_column, value_column, tie) ==
    IF ~HasColumn(t, date_column) \/ ~HasColumn(t, value_column)
    THEN [raised |-> "KeyError"]
    ELSE IF date_column = value_column THEN [raised |-> "ValueError"]
    ELSE LET dates == Col(t, date_column).cells
             values == Col(t, value_column).cells
             rows == SortedRows(dates, values, tie)
         IN  IF Len(rows) < 2
             THEN [error |-> "Not enough data points for trend analysis"]
             ELSE IF Col(t, value_column).dtype # "number"
             THEN [raised |-> "DataError"]
             ELSE TrendRecord(date_column, value_column,
                              [k \in 1..Len(rows) |-> values[rows[k]][1]])

\* analyze_trends(df, date_column, value_column): what it returns (or
\* raises) and the caller's DataFrame as it leaves it.
analyze_trends(t, date_column, value_column, tie) ==
    LET found == IF date_column = NoColumn THEN DetectDateColumn(t)
                 ELSE [df |-> t, date_column |-> date_column]
        numeric_cols == NumericCols(found.df)
    IN  IF found.date_column = NoColumn
        THEN [df |-> found.df, result |-> [error |-> "No date column found"]]
        ELSE IF value_column = NoColumn /\ numeric_cols = <<>>
        THEN [df |-> found.df, result |-> [error |-> "No numeric column found"]]
        ELSE [df |-> found.df,
              result |-> TrendOf(found.df, found.date_column,
                                 IF value_column = NoColumn
                                 THEN found.df[numeric_cols[1]].name
                                 ELSE value_column,
                                 tie)]

\* A name the table has no column of.
UnknownColumn == "zz"

\* GET /{dataset_id}/trends: the handler returns what analyze_trends returns
\* and catches nothing.
AnalyzeTrends ==
    \E date_column \in ColNames(df) \cup {NoColumn, UnknownColumn},
       value_column \in ColNames(df) \cup {NoColumn, UnknownColumn},
       tie \in TieOrders :
        LET out == analyze_trends(df, date_column, value_column, tie)
        IN  /\ Serve([fn |-> "trends", table |-> df, date_column |-> date_column,
                      value_column |-> value_column, tie |-> tie],
                     out.result)
            /\ df' = out.df
            /\ UNCHANGED prev

\* Columns of two rows, one of each kind: plain text, date text (not in
\* date order), numbers, numbers, all missing, timestamps.
FixedColumns ==
    {[name |-> "s", dtype |-> "object", cells |-> <<<<21>>, <<22>>>>],
     [name |-> "d", dtype |-> "object", cells |-> <<<<13>>, <<11>>>>],
     [name |-> "v", dtype |-> "number", cells |-> <<<<4>>, <<6>>>>],
     [name |-> "w", dtype |-> "number", cells |-> <<<<0>>, <<3>>>>],
     [name |-> "n", dtype |-> "number", cells |-> <<<<>>, <<>>>>],
     [name |-> "t", dtype |-> "datetime64", cells |-> <<<<2>>, <<1>>>>]}

\* The documented example: value = [10, 20, 30, 40, 50] on increasing dates.
TrendScenario ==
    <<[name |-> "date", dtype |-> "datetime64", cells |-> [i \in 1..5 |-> <<i>>]],
      [name |-> "value", dtype |-> "number", cells |-> [i \in 1..5 |-> <<10 * i>>]]>>

\* A long table: n rows in descending date order.
LongTable(n) ==
    <<[name |-> "date", dtype |-> "datetime64", cells |-> [i \in 1..n |-> <<n + 1 - i>>]],
      [name |-> "value", dtype |-> "number", cells |-> [i \in 1..n |-> <<(i * i) % 11>>]]>>

TrendTable(t) ==
    \/ t = TrendScenario
    \/ \E k \in 0..TrendCols :
        \E f \in [1..k -> FixedColumns] :
            /\ \A i, j \in 1..k : i # j => f[i].name # f[j].name
            /\ t = f
    \/ \E r \in 0..TrendRows :
        \E ds \in [1..r -> NumCells({11, 13})], vs \in [1..r -> NumCells({0, 5})] :
            t = <<MakeColumn("d", "object", ds), MakeColumn("v", "number", vs)>>
    \/ \E n \in {ShortWindow + 1, LongRows} : t = LongTable(n)

InitTrends == TrendTable(df) /\ InitIdle
NextTrends == AnalyzeTrends
SpecTrends == InitTrends /\ [][NextTrends]_vars

TrendCall == call.fn = "trends"

NoDateSignal == [error |-> "No date column found"]
NoNumericSignal == [error |-> "No numeric column found"]
NotEnoughSignal == [error |-> "Not enough data points for trend analysis"]

TemporalCols(t) == SelectSeq(Indices(t), LAMBDA i : t[i].dtype = "datetime64")

\* A column of plain numbers or with a text that is no date.
NotDates(col) ==
    \/ col.dtype = "number" /\ DropNA(col.cells) # <<>>
    \/ col.dtype = "object" /\ ~ToDatetimeOk(col)

\* A text column with values, all of them date strings.
AllDates(col) ==
    col.dtype = "object" /\ ToDatetimeOk(col) /\ DropNA(col.cells) # <<>>

\* C14: without date_column the date column is the first temporal column;
\* failing that the first column whose values all parse as dates, never a
\* column of plain numbers or of other text; failing that the call returns
\* 'No date column found'.
C14_DateColumnDetected ==
    (TrendCall /\ call.date_column = NoColumn) =>
        LET t == call.table
            temporal == TemporalCols(t)
        IN  /\ "date_column" \in DOMAIN result =>
                   IF temporal # <<>> THEN result.date_column = t[temporal[1]].name
                   ELSE \E i \in 1..Len(t) :
                           /\ t[i].name = result.date_column
                           /\ ~NotDates(t[i])
                           /\ \A j \in 1..(i - 1) : ~AllDates(t[j])
            /\ result = NoDateSignal =>
                   temporal = <<>> /\ \A i \in 1..Len(t) : ~AllDates(t[i])
            /\ (temporal = <<>> /\ \A i \in 1..Len(t) : NotDates(t[i])) =>
                   result = NoDateSignal

\* A numeric column with at least one value.
HoldsNumbers(col) == col.dtype = "number" /\ DropNA(col.cells) # <<>>

\* C15: without value_column the value column is the first numeric column
\* of the table passed in and differs from the date column; 'No numeric
\* column found' is returned when (and only when) that table has no numeric
\* column.
C15_ValueColumnDetected ==
    (TrendCall /\ call.value_column = NoColumn) =>
        LET t == call.table
            numeric == NumericCols(t)
        IN  /\ "value_column" \in DOMAIN result =>
                   /\ \E i \in 1..Len(t) :
                          /\ t[i].name = result.value_column
                          /\ t[i].dtype = "number"
                          /\ \A j \in 1..(i - 1) : ~HoldsNumbers(t[j])
                   /\ result.value_column # result.date_column
            /\ result = NoNumericSignal => \A i \in 1..Len(t) : ~HoldsNumbers(t[i])
            /\ (numeric = <<>> /\ result # NoDateSignal) => result = NoNumericSignal

\* The columns the call resolved, read off the table as the call left it.
ResolvedDate ==
    IF call.date_column # NoColumn THEN call.date_column
    ELSE DetectDateColumn(call.table).date_column

ResolvedValue ==
    IF call.value_column # NoColumn THEN call.value_column
    ELSE IF NumericCols(df) = <<>> THEN NoColumn
    ELSE df[NumericCols(df)[1]].name

\* A call whose date and value columns are two columns of the table, the
\* value column numeric.
TrendResolved ==
    /\ TrendCall
    /\ HasColumn(df, ResolvedDate)
    /\ HasColumn(df, ResolvedValue)
    /\ ResolvedDate # ResolvedValue
    /\ Col(df, ResolvedValue).dtype = "number"

CompleteRows(dates, values) ==
    {i \in 1..Len(dates) : ~IsNA(dates[i]) /\ ~IsNA(values[i])}

TrendSeries ==
    LET dates == Col(df, result.date_column).cells
        values == Col(df, result.value_column).cells
        rows == SortedRows(dates, values, call.tie)
    IN  [k \in 1..Len(rows) |-> values[rows[k]][1]]

WindowMeans(ma, ys, w) ==
    /\ Len(ma) = Len(ys)
    /\ \A i \in 1..Len(ys) :
           IF i <= w - 1 THEN ma[i] = None
           ELSE ma[i] = Rat(SumSeq(SubSeq(ys, i - w + 1, i)), w)

C19_UnknownColumnSignal ==
    (TrendCall /\ UnknownColumn \in {call.date_column, call.value_column}) =>
        /\ IsError(result)
        /\ result \notin {NoDateSignal, NoNumericSignal, NotEnoughSignal}

-----------------------------------------------------------------------------
(* analyzer.generate_summary_report (memory_usage_mb is left out).  The     *)
(* divisions are numpy scalar divisions: 0 / 0 is NaN, not an exception.    *)

\* df.isna().sum().sum()
MissingCells(t) == SumSeq([i \in 1..Len(t) |-> NACount(t[i].cells)])

\* df.duplicated().sum(): rows equal, cell by cell, to an earlier row.
DuplicateRows(t) ==
    Cardinality({i \in 1..NRows(t) :
        \E j \in 1..(i - 1) : \A c \in 1..Len(t) : t[c].cells[i] = t[c].cells[j]})

\* (missing / (len(df) * len(df.columns))) * 100
MissingPercentage(t) ==
    IF NRows(t) * Len(t) = 0 THEN NaN
    ELSE Rat(MissingCells(t) * 100, NRows(t) * Len(t))

Completeness(t) ==
    IF NRows(t) * Len(t) = 0 THEN NaN
    ELSE RSub(Float(100), Rat(MissingCells(t) * 100, NRows(t) * Len(t)))

\* Mutant: the quotient taken without the len(df) > 0 test.
Uniqueness_Unguarded(t) ==
    IF NRows(t) = 0 THEN NaN
    ELSE Rat((NRows(t) - DuplicateRows(t)) * 100, NRows(t))

Uniqueness(t) ==
    IF NRows(t) > 0 THEN Rat((NRows(t) - DuplicateRows(t)) * 100, NRows(t))
    ELSE Float(0)

CountDtype(t, dtype) == Len(SelectSeq(Indices(t), LAMBDA i : t[i].dtype = dtype))

generate_summary_report(t) ==
    [overview |-> [total_rows |-> NRows(t),
                   total_columns |-> Len(t),
                   numeric_columns |-> CountDtype(t, "number"),
                   categorical_columns |-> CountDtype(t, "object"),
                   datetime_columns |-> CountDtype(t, "datetime64"),
                   missing_cells |-> MissingCells(t),
                   missing_percentage |-> MissingPercentage(t),
                   duplicate_rows |-> DuplicateRows(t)],
     statistics |-> calculate_descriptive_statistics(t, TRUE),
     data_quality |-> [completeness |-> Completeness(t),
                       uniqueness |-> Uniqueness(t)]]

\* GET /{dataset_id}/summary
GetSummary ==
    /\ Serve([fn |-> "summary"], generate_summary_report(df))
    /\ UNCHANGED <<df, prev>>

SummaryTable(t) ==
    \/ t = <<>>
    \/ t = <<EmptyNumericColumn("a")>>
    \/ \E r \in 0..SummaryRows :
        \E cs \in [1..r -> NumCells(0..1)], ds \in [1..r -> StrCells] :
            t = <<MakeColumn("a", "number", cs), MakeColumn("b", "object", ds)>>

InitSummary == SummaryTable(df) /\ InitIdle
NextSummary == GetSummary
SpecSummary == InitSummary /\ [][NextSummary]_vars

\* C20: for every table, with or without rows, the report carries a
\* data-quality block with completeness = 100 - missing_percentage, where
\* missing_percentage = missing cells / (rows * columns) * 100 (both undefined,
\* NaN, for a table without cells), and uniqueness = (rows - duplicate rows)
\* / rows * 100, which is 0 for a table without rows.
C20_DataQuality ==
    call.fn = "summary" =>
        LET rows == NRows(df)
            cells == NRows(df) * Len(df)
            missing == Cardinality({p \in (1..Len(df)) \X (1..rows) : IsNA(df[p[1]].cells[p[2]])})
            o == result.overview
            q == result.data_quality
        IN  /\ DOMAIN q = {"completeness", "uniqueness"}
            /\ o.missing_cells = missing
            /\ cells > 0 =>
                   /\ o.missing_percentage = Rat(missing * 100, cells)
                   /\ q.completeness = RSub(Float(100), o.missing_percentage)
            /\ cells = 0 => (o.missing_percentage = NaN /\ q.completeness = NaN)
            /\ rows > 0 => q.uniqueness = Rat((rows - o.duplicate_rows) * 100, rows)
            /\ rows = 0 => q.uniqueness = Float(0)

\* The report of a table with columns and no row.
C20_Witness ==
    /\ call.fn = "summary"
    /\ Len(df) > 0
    /\ NRows(df) = 0
    /\ result.data_quality.uniqueness = Float(0)
    /\ IsError(result.statistics)

-----------------------------------------------------------------------------
(* visualizer.prepare_bar_chart_data, prepare_line_chart_data,              *)
(* prepare_scatter_plot_data and suggest_chart_type, with the pie and the   *)
(* histogram preparers above, on tables holding any subset of five columns: *)
(* a and v numeric, b and c text, d timestamps.                             *)

ChartRows == 3

ChartNames == <<"a", "b", "c", "d", "v">>

\* The column `name` of r rows; its first cell is missing when gap = name.
ChartColumn(name, r, gap) ==
    LET kind == CASE name \in {"a", "v"} -> "number"
                  [] name \in {"b", "c"} -> "object"
                  [] name = "d" -> "datetime64"
        value(i) == CASE name = "a" -> i
                      [] name = "v" -> (2 * i) % 3
                      [] name = "b" -> 1
                      [] name = "c" -> 1 + (i % 2)
                      [] name = "d" -> 300 - i
    IN  MakeColumn(name, kind,
                   [i \in 1..r |-> IF gap = name /\ i = 1 THEN <<>> ELSE <<value(i)>>])

ChartTable(t) ==
    \E S \in SUBSET SeqSet(ChartNames), r \in 0..ChartRows :
        \E gap \in S \cup {NoColumn} :
            /\ r = 0 => gap = NoColumn
            /\ t = [i \in 1..Len(SelectSeq(ChartNames, LAMBDA n : n \in S)) |->
                       ChartColumn(SelectSeq(ChartNames, LAMBDA n : n \in S)[i], r, gap)]

\* The rows df[cols].dropna() keeps: those holding a value in every column
\* of cols.
KeptRows(t, cols) ==
    SelectSeq([r \in 1..NRows(t) |-> r],
              LAMBDA r : \A k \in 1..Len(cols) : ~IsNA(Col(t, cols[k]).cells[r]))

\* plot_df[col].tolist()
CellValues(t, col, rows) == [k \in 1..Len(rows) |-> Col(t, col).cells[rows[k]][1]]

BarAggregations == {"sum", "mean", "count", "max", "min"}

\* groupby(x)[y].<aggregation>() at the group `key`: the values of y on the
\* rows of the group, missing cells skipped.
BarValue(t, x, y, aggregation, key) ==
    LET rows == SelectSeq([r \in 1..NRows(t) |-> r],
                          LAMBDA r : Col(t, x).cells[r] = <<key>>
                                     /\ ~IsNA(Col(t, y).cells[r]))
        vals == CellValues(t, y, rows)
    IN  CASE aggregation = "sum" -> Float(SumSeq(vals))
          [] aggregation = "count" -> Float(Len(vals))
          [] aggregation = "mean" -> IF vals = <<>> THEN NaN ELSE Mean(vals)
          [] aggregation = "max" -> IF vals = <<>> THEN NaN ELSE Float(SeqMax(vals))
          [] aggregation = "min" -> IF vals = <<>> THEN NaN ELSE Float(SeqMin(vals))

\* The orders sort_values(ascending=False) may leave the groups in: by
\* descending value, undefined values last, ties in any order.
BarOrders(t, x, y, aggregation) ==
    IF ~HasColumn(t, x) \/ ~HasColumn(t, y) \/ aggregation \notin BarAggregations
    THEN {<<>>}
    ELSE LET keys == GroupKeys(t, x)
             n == Cardinality(keys)
             val(k) == BarValue(t, x, y, aggregation, k)
         IN  {o \in [1..n -> keys] :
                 /\ \A i, j \in 1..n : i # j => o[i] # o[j]
                 /\ \A i \in 1..(n - 1) :
                        \/ val(o[i + 1]) = NaN
                        \/ val(o[i]) # NaN /\ RLe(val(o[i + 1]), val(o[i]))}

prepare_bar_chart_data(t, x_column, y_column, aggregation, limit, order) ==
    IF ~HasColumn(t, x_column) \/ ~HasColumn(t, y_column)
    THEN [error |-> "Column not found"]
    ELSE IF aggregation \notin BarAggregations
    THEN [error |-> "Unknown aggregation", aggregation |-> aggregation]
    ELSE LET head == SubSeq(order, 1, Min2(Len(order), limit))
         IN  [type |-> "bar",
              labels |-> [i \in 1..Len(head) |-> <<Col(t, x_column).dtype, head[i]>>],
              values |-> [i \in 1..Len(head) |->
                             BarValue(t, x_column, y_column, aggregation, head[i])],
              aggregation |-> aggregation,
              x_column |-> x_column,
              y_column |-> y_column]

BarDf(t) == t

\* POST /{dataset_id}/visualize/bar; aggregation is held to the five names
\* by the query's pattern, limit: Query(20, ge=1, le=100).
CreateBarChart ==
    /\ result = NoResult
    /\ \E x_column \in {"c", "d", UnknownColumn}, y_column \in {"v", "a", UnknownColumn},
          aggregation \in BarAggregations, limit \in {1, 20} :
           \E order \in BarOrders(df, x_column, y_column, aggregation) :
               /\ Serve([fn |-> "bar", x_column |-> x_column, y_column |-> y_column,
                         aggregation |-> aggregation, limit |-> limit],
                        prepare_bar_chart_data(df, x_column, y_column, aggregation, limit, order))
               /\ df' = BarDf(df)
               /\ UNCHANGED prev

\* plot_df.sort_values(x_column): the kept rows by ascending x cell.
SortedByX(t, x_column, rows, tie) ==
    LET xs == Col(t, x_column).cells
    IN  SortSeq(rows, LAMBDA i, j :
            \/ xs[i][1] < xs[j][1]
            \/ xs[i][1] = xs[j][1] /\ (IF tie = "rows" THEN i < j ELSE i > j))

\* The payload once every column was found.
LinePayload(t, x_column, y_columns, tie) ==
    LET rows == SortedByX(t, x_column, KeptRows(t, <<x_column>> \o y_columns), tie)
    IN  [type |-> "line",
         x_values |-> CellValues(t, x_column, rows),
         series |-> [k \in 1..Len(y_columns) |->
                        [name |-> y_columns[k],
                         values |-> CellValues(t, y_columns[k], rows)]]]

\* Mutant: a y column that is not in the table is left out of the chart.
prepare_line_chart_data_DropsMissing(t, x_column, y_columns, tie) ==
    IF ~HasColumn(t, x_column) THEN [error |-> "Column not found", column |-> x_column]
    ELSE LinePayload(t, x_column, SelectSeq(y_columns, LAMBDA c : HasColumn(t, c)), tie)

\* sort_by_x keeps its default, True: the endpoint does not pass it.
prepare_line_chart_data(t, x_column, y_columns, tie) ==
    IF ~HasColumn(t, x_column) THEN [error |-> "Column not found", column |-> x_column]
    ELSE IF \E k \in 1..Len(y_columns) : ~HasColumn(t, y_columns[k])
    THEN [error |-> "Column not found",
          column |-> y_columns[CHOOSE k \in 1..Len(y_columns) :
                                  /\ ~HasColumn(t, y_columns[k])
                                  /\ \A m \in 1..(k - 1) : HasColumn(t, y_columns[m])]]
    ELSE LinePayload(t, x_column, y_columns, tie)

LineDf(t) == t

\* The y_columns lists of the requests ("v", "v,a", "v,zz", "zz", "zz,v").
LineYColumns ==
    {<<"v">>, <<"v", "a">>, <<"v", UnknownColumn>>, <<UnknownColumn>>, <<UnknownColumn, "v">>}

\* POST /{dataset_id}/visualize/line
CreateLineChart ==
    /\ result = NoResult
    /\ \E x_column \in {"d", "c", UnknownColumn}, y_columns \in LineYColumns, tie \in TieOrders :
           /\ Serve([fn |-> "line", x_column |-> x_column, y_columns |-> y_columns,
                     tie |-> tie],
                    prepare_line_chart_data(df, x_column, y_columns, tie))
           /\ df' = LineDf(df)
           /\ UNCHANGED prev

\* sample_size: Query(1000, ge=100, le=10000)
MinSampleSize == 100

\* plot_df.sample(n=sample_size, random_state=42) when there are more rows
\* than sample_size: n of the rows, in an order the seed fixes.
Samples(rows, sample_size) ==
    IF Len(rows) > sample_size
    THEN {s \in [1..sample_size -> SeqSet(rows)] :
             \A i, j \in 1..sample_size : i # j => s[i] # s[j]}
    ELSE {rows}

\* cols: x, y and the colour and size columns that are in the table.
ScatterCols(t, x_column, y_column, color_column, size_column) ==
    <<x_column, y_column>>
        \o (IF color_column # NoColumn /\ HasColumn(t, color_column)
            THEN <<color_column>> ELSE <<>>)
        \o (IF size_column # NoColumn /\ HasColumn(t, size_column)
            THEN <<size_column>> ELSE <<>>)

ScatterSamples(t, x_column, y_column, color_column, size_column, sample_size) ==
    IF ~HasColumn(t, x_column) \/ ~HasColumn(t, y_column) THEN {<<>>}
    ELSE Samples(KeptRows(t, ScatterCols(t, x_column, y_column, color_column, size_column)),
                 sample_size)

\* Adds the entries of record s to record r.
Merge(r, s) ==
    [k \in DOMAIN r \cup DOMAIN s |-> IF k \in DOMAIN s THEN s[k] ELSE r[k]]

prepare_scatter_plot_data(t, x_column, y_column, color_column, size_column, rows) ==
    IF ~HasColumn(t, x_column) \/ ~HasColumn(t, y_column)
    THEN [error |-> "Column not found"]
    ELSE LET cols == ScatterCols(t, x_column, y_column, color_column, size_column)
             base == [type |-> "scatter",
                      x_values |-> CellValues(t, x_column, rows),
                      y_values |-> CellValues(t, y_column, rows),
                      x_column |-> x_column,
                      y_column |-> y_column,
                      point_count |-> Len(rows)]
             colors == IF color_column # NoColumn /\ color_column \in SeqSet(cols)
                       THEN [colors |-> CellValues(t, color_column, rows),
                             color_column |-> color_column]
                       ELSE <<>>
             sizes == IF size_column # NoColumn /\ size_column \in SeqSet(cols)
                      THEN [sizes |-> CellValues(t, size_column, rows),
                            size_column |-> size_column]
                      ELSE <<>>
         IN  Merge(Merge(base, colors), sizes)

ScatterDf(t) == t

\* POST /{dataset_id}/visualize/scatter
CreateScatterPlot ==
    /\ result = NoResult
    /\ \E x_column \in {"a", UnknownColumn}, y_column \in {"v", UnknownColumn},
          color_column \in {NoColumn, "c", UnknownColumn},
          size_column \in {NoColumn, "d", UnknownColumn},
          sample_size \in {MinSampleSize} :
           \E rows \in ScatterSamples(df, x_column, y_column, color_column, size_column,
                                      sample_size) :
               /\ Serve([fn |-> "scatter", x_column |-> x_column, y_column |-> y_column,
                         color_column |-> color_column, size_column |-> size_column,
                         sample_size |-> sample_size],
                        prepare_scatter_plot_data(df, x_column, y_column, color_column,
                                                  size_column, rows))
               /\ df' = ScatterDf(df)
               /\ UNCHANGED prev

\* pd.api.types.is_numeric_dtype / is_datetime64_any_dtype on a column's dtype
is_numeric_dtype(dtype) == dtype = "number"
is_datetime64_any_dtype(dtype) == dtype = "datetime64"

Suggestion(chart_type, recommended) ==
    [chart_type |-> chart_type, recommended |-> recommended]

\* Mutant: the categorical test comes before the datetime test.
suggest_chart_type_BarFirst(t, x_column, y_column) ==
    IF ~HasColumn(t, x_column) THEN [error |-> "Column not found", column |-> x_column]
    ELSE LET x_dtype == Col(t, x_column).dtype
         IN  IF y_column = NoColumn
             THEN IF is_numeric_dtype(x_dtype) THEN Suggestion("histogram", TRUE)
                  ELSE Suggestion("pie", TRUE)
             ELSE IF ~HasColumn(t, y_column)
             THEN [error |-> "Column not found", column |-> y_column]
             ELSE LET y_dtype == Col(t, y_column).dtype
                  IN  IF ~is_numeric_dtype(x_dtype) /\ is_numeric_dtype(y_dtype)
                      THEN Suggestion("bar", TRUE)
                      ELSE IF is_datetime64_any_dtype(x_dtype) /\ is_numeric_dtype(y_dtype)
                      THEN Suggestion("line", TRUE)
                      ELSE IF is_numeric_dtype(x_dtype) /\ is_numeric_dtype(y_dtype)
                      THEN Suggestion("scatter", TRUE)
                      ELSE Suggestion("bar", FALSE)

\* The `reasoning` text of a suggestion is left out.
suggest_chart_type(t, x_column, y_column) ==
    IF ~HasColumn(t, x_column) THEN [error |-> "Column not found", column |-> x_column]
    ELSE LET x_dtype == Col(t, x_column).dtype
         IN  IF y_column = NoColumn
             THEN IF is_numeric_dtype(x_dtype) THEN Suggestion("histogram", TRUE)
                  ELSE Suggestion("pie", TRUE)
             ELSE IF ~HasColumn(t, y_column)
             THEN [error |-> "Column not found", column |-> y_column]
             ELSE LET y_dtype == Col(t, y_column).dtype
                  IN  IF is_datetime64_any_dtype(x_dtype) /\ is_numeric_dtype(y_dtype)
                      THEN Suggestion("line", TRUE)
                      ELSE IF ~is_numeric_dtype(x_dtype) /\ is_numeric_dtype(y_dtype)
                      THEN Suggestion("bar", TRUE)
                      ELSE IF is_numeric_dtype(x_dtype) /\ is_numeric_dtype(y_dtype)
                      THEN Suggestion("scatter", TRUE)
                      ELSE Suggestion("bar", FALSE)

SuggestDf(t) == t

\* GET /{dataset_id}/visualize/suggest
SuggestChart ==
    /\ result = NoResult
    /\ \E x_column \in SeqSet(ChartNames) \cup {UnknownColumn},
          y_column \in SeqSet(ChartNames) \cup {NoColumn, UnknownColumn} :
           /\ Serve([fn |-> "suggest", x_column |-> x_column, y_column |-> y_column],
                    suggest_chart_type(df, x_column, y_column))
           /\ df' = SuggestDf(df)
           /\ UNCHANGED prev

InitCharts == ChartTable(df) /\ InitIdle
NextCharts ==
    \/ CreateBarChart
    \/ CreateLineChart
    \/ CreatePieChart
    \/ CreateScatterPlot
    \/ CreateHistogram
    \/ SuggestChart
SpecCharts == InitCharts /\ [][NextCharts]_vars

ChartCall == call.fn \in {"bar", "line", "pie", "scatter", "histogram", "suggest"}

\* The column names the request must find in the table.
RequiredColumns ==
    CASE call.fn \in {"bar", "scatter"} -> {call.x_column, call.y_column}
      [] call.fn = "line" -> {call.x_column} \cup SeqSet(call.y_columns)
      [] call.fn = "pie" -> {call.category_column} \cup ({call.value_column} \ {NoColumn})
      [] call.fn = "histogram" -> {call.column}
      [] call.fn = "suggest" -> {call.x_column} \cup ({call.y_column} \ {NoColumn})

ColumnNotFound(r) ==
    /\ IsError(r)
    /\ r.error = "Column not found"
    /\ "type" \notin DOMAIN r
    /\ "chart_type" \notin DOMAIN r

\* C21: a chart request naming a required column that is not in the table
\* (x or y for bar and scatter, x or any of the y columns for line, the
\* category and a given value column for pie, the column for histogram, x
\* and a given y for the suggester) is answered with the column-not-found
\* error and with no chart payload.
C21_ColumnNotFound ==
    (ChartCall /\ ~(RequiredColumns \subseteq ColNames(df))) => ColumnNotFound(result)

\* A line chart asked for an existing x, an existing first y column and an
\* unknown second one.
C21_Witness ==
    /\ call.fn = "line"
    /\ HasColumn(df, call.x_column)
    /\ Len(call.y_columns) = 2
    /\ HasColumn(df, call.y_columns[1])
    /\ ~HasColumn(df, call.y_columns[2])
    /\ NRows(df) > 0
    /\ ColumnNotFound(result)

\* C22: a scatter request on existing x and y columns that names a colour
\* or a size column the table does not have is answered with the
\* column-not-found error, never with a payload lacking that dimension.
C22_ScatterOptionalColumns ==
    (/\ call.fn = "scatter"
     /\ NRows(df) > 1
     /\ HasColumn(df, call.x_column)
     /\ HasColumn(df, call.y_column)
     /\ \/ call.color_column = UnknownColumn
        \/ call.size_column = UnknownColumn)
        => ColumnNotFound(result)

ColumnClass(t, nm) ==
    CASE Col(t, nm).dtype = "number" -> "numeric"
      [] Col(t, nm).dtype = "datetime64" -> "temporal"
      [] OTHER -> "categorical"

\* C23: on existing columns the suggestion is decided by the column classes:
\* one numeric column gives histogram, one non-numeric column pie; temporal
\* x with numeric y gives line, any other non-numeric x with numeric y bar,
\* numeric x with numeric y scatter, all recommended; a y that is not
\* numeric gives bar, not recommended.
C23_SuggestionTable ==
    (call.fn = "suggest" /\ RequiredColumns \subseteq ColNames(df)) =>
        LET x == ColumnClass(df, call.x_column)
        IN  IF call.y_column = NoColumn
            THEN result = Suggestion(IF x = "numeric" THEN "histogram" ELSE "pie", TRUE)
            ELSE LET y == ColumnClass(df, call.y_column)
                 IN  result =
                        CASE y # "numeric" -> Suggestion("bar", FALSE)
                          [] y = "numeric" /\ x = "temporal" -> Suggestion("line", TRUE)
                          [] y = "numeric" /\ x = "categorical" -> Suggestion("bar", TRUE)
                          [] y = "numeric" /\ x = "numeric" -> Suggestion("scatter", TRUE)

\* Timestamps against numbers: a line chart is recommended.
C23_Witness ==
    /\ call.fn = "suggest"
    /\ call.x_column = "d"
    /\ call.y_column = "v"
    /\ NRows(df) > 1
    /\ HasColumn(df, "d")
    /\ HasColumn(df, "v")
    /\ result = Suggestion("line", TRUE)

\* C24: a call of the trend analyzer that returns (a record or an error
\* signal), with date_column given or not, leaves its caller's table as it
\* was given: every column keeps its cells and its dtype.  Stated for
\* tables whose every column holds a value.
C24_TableUnchanged ==
    (TrendCall /\ "raised" \notin DOMAIN result
         /\ \A i \in 1..Len(call.table) : DropNA(call.table[i].cells) # <<>>) =>
        /\ Len(df) = Len(call.table)
        /\ \A i \in 1..Len(df) :
               /\ df[i].name = call.table[i].name
               /\ df[i].dtype = call.table[i].dtype
               /\ df[i].cells = call.table[i].cells

-----------------------------------------------------------------------------
(* Renames (PUT /{dataset_id}) followed by requests that load the dataset.  *)

StoredRequest == "dataset_id" \in DOMAIN call

\* C29: whatever renames came before, a request that loads a stored
\* dataset reads its file with the format declared at upload and answers
\* as it would have without the renames.
C29_RenameKeepsFormat ==
    StoredRequest =>
        LET d == datasets[call.dataset_id]
            declared == read_dataset(files[d.file_path].kind, d.file_type)
        IN  /\ call.file_type = d.file_type
            /\ response.status = (IF declared.ok THEN 200 ELSE declared.status)
            /\ declared.ok => result = calculate_descriptive_statistics(declared.df, TRUE)

-----------------------------------------------------------------------------
(* Accounts, access tokens and dataset ownership: api/auth.py, api/deps.py, *)
(* api/users.py, api/datasets.py and the guards of api/analysis.py.         *)
(* A user id is a position in `users` (uuid4 keys are never reused); a      *)
(* deleted row keeps its position with exists = FALSE.  A token is          *)
(* [sub, user]: its "sub" claim, and the user login signed it for, which    *)
(* the token itself does not carry.  Dataset rows are                       *)
(* [exists, user_id, file_path, filename_ext, file_type], stored files      *)
(* [kind, present].                                                         *)

MaxUsers == 2

Emails == {"e1", "e2"}
Usernames == {"n1", "n2"}
Password == "pw"
WrongPassword == "bad"

\* None for an optional field of a request body.
NoValue == "<None>"

\* A bearer string that jwt.decode rejects.
NoToken == [sub |-> NoValue, user |-> 0]

\* 0 stands for None (no row).
get_user_by_email(us, email) ==
    IF \E i \in 1..Len(us) : us[i].exists /\ us[i].email = email
    THEN CHOOSE i \in 1..Len(us) : us[i].exists /\ us[i].email = email
    ELSE 0

get_user_by_username(us, username) ==
    IF \E i \in 1..Len(us) : us[i].exists /\ us[i].username = username
    THEN CHOOSE i \in 1..Len(us) : us[i].exists /\ us[i].username = username
    ELSE 0

create_user(us, email, username, password) ==
    Append(us, [exists |-> TRUE, email |-> email, username |-> username,
                password |-> password, is_active |-> TRUE, is_superuser |-> FALSE])

authenticate_user(us, email, password) ==
    LET u == get_user_by_email(us, email)
    IN  IF u = 0 THEN 0
        ELSE IF us[u].password # password THEN 0
        ELSE IF ~us[u].is_active THEN 0
        ELSE u

\* create_access_token(data={"sub": user.email}) for the user row u.
create_access_token(us, u) == [sub |-> us[u].email, user |-> u]

\* The fields the response model Token declares without a default.
TokenRequired == {"access_token", "message", "user"}

\* FastAPI validates a returned dict against response_model; a missing
\* required field is a ResponseValidationError, answered 500.
ValidResponse(body, required) == required \subseteq DOMAIN body

\* POST /auth/register
register_user ==
    /\ Len(users) < MaxUsers
    /\ \E email \in Emails, username \in Usernames :
        /\ call' = [fn |-> "register", email |-> email, username |-> username]
        /\ IF get_user_by_email(users, email) # 0
           THEN /\ response' = [status |-> 400, detail |-> "Email already registered"]
                /\ UNCHANGED users
           ELSE IF get_user_by_username(users, username) # 0
           THEN /\ response' = [status |-> 400, detail |-> "Username already taken"]
                /\ UNCHANGED users
           ELSE /\ users' = create_user(users, email, username, Password)
                /\ response' = [status |-> 201, detail |-> "Created"]
    /\ UNCHANGED <<df, result, prev, files, datasets, tokens>>

\* POST /auth/login
login_user ==
    \E email \in Emails, password \in {Password, WrongPassword} :
        LET user == authenticate_user(users, email, password)
        IN  /\ IF user = 0
               THEN /\ response' = [status |-> 401, detail |-> "Incorrect email or password"]
                    /\ call' = [fn |-> "login", email |-> email, password |-> password,
                                access_token |-> NoToken]
                    /\ UNCHANGED tokens
               ELSE LET access_token == create_access_token(users, user)
                        body == [access_token |-> access_token, token_type |-> "bearer"]
                    IN  /\ tokens' = tokens \cup {access_token}
                        /\ call' = [fn |-> "login", email |-> email, password |-> password,
                                    access_token |-> access_token]
                        /\ response' = IF ValidResponse(body, TokenRequired)
                                       THEN [status |-> 200, detail |-> "OK"]
                                       ELSE [status |-> 500, detail |-> "Internal Server Error"]
            /\ UNCHANGED <<df, result, prev, files, datasets, users>>

\* The dependency of every protected endpoint: the user row the token's
\* "sub" names now, or the status it raises.
get_current_user(us, token) ==
    IF token = NoToken THEN [status |-> 401, user |-> 0]
    ELSE LET u == get_user_by_email(us, token.sub)
         IN  IF u = 0 THEN [status |-> 401, user |-> 0]
             ELSE IF ~us[u].is_active THEN [status |-> 403, user |-> 0]
             ELSE [status |-> 200, user |-> u]

\* The Authorization headers a request may carry.
Bearers == tokens \cup {NoToken}

AuthDetail(status) ==
    IF status = 401 THEN "Could not validate credentials" ELSE "Inactive user"

\* GET /auth/me
get_current_user_profile ==
    \E token \in Bearers :
        LET auth == get_current_user(users, token)
        IN  /\ call' = [fn |-> "me", token |-> token, user |-> auth.user]
            /\ response' = IF auth.status = 200 THEN [status |-> 200, detail |-> "OK"]
                           ELSE [status |-> auth.status, detail |-> AuthDetail(auth.status)]
            /\ UNCHANGED <<df, result, prev, files, datasets, users, tokens>>

update_user(us, u, email, username) ==
    [us EXCEPT ![u].email = IF email # NoValue THEN email ELSE @,
               ![u].username = IF username # NoValue THEN username ELSE @]

\* PUT /users/me; full_name and password leave the modelled fields alone.
update_my_profile ==
    \E token \in Bearers, email \in Emails \cup {NoValue}, username \in Usernames \cup {NoValue} :
        LET auth == get_current_user(users, token)
            u == auth.user
        IN  /\ call' = [fn |-> "update_me", token |-> token, user |-> u]
            /\ IF auth.status # 200
               THEN /\ response' = [status |-> auth.status, detail |-> AuthDetail(auth.status)]
                    /\ UNCHANGED users
               ELSE IF /\ email # NoValue
                       /\ email # users[u].email
                       /\ get_user_by_email(users, email) # 0
               THEN /\ response' = [status |-> 400, detail |-> "Email already registered"]
                    /\ UNCHANGED users
               ELSE IF /\ username # NoValue
                       /\ username # users[u].username
                       /\ get_user_by_username(users, username) # 0
               THEN /\ response' = [status |-> 400, detail |-> "Username already taken"]
                    /\ UNCHANGED users
               ELSE /\ users' = update_user(users, u, email, username)
                    /\ response' = [status |-> 200, detail |-> "OK"]
            /\ UNCHANGED <<df, result, prev, files, datasets, tokens>>

\* db.delete(user): the row goes, and with it (cascade) the user's dataset
\* rows; nothing touches the stored files.
delete_user(us, u) == [us EXCEPT ![u].exists = FALSE]

CascadeDatasets(ds, u) ==
    [i \in 1..Len(ds) |-> IF ds[i].user_id = u THEN [ds[i] EXCEPT !.exists = FALSE] ELSE ds[i]]

\* DELETE /users/me
delete_my_account ==
    \E token \in Bearers :
        LET auth == get_current_user(users, token)
        IN  /\ call' = [fn |-> "delete_me", token |-> token, user |-> auth.user]
            /\ IF auth.status # 200
               THEN /\ response' = [status |-> auth.status, detail |-> AuthDetail(auth.status)]
                    /\ UNCHANGED <<users, datasets>>
               ELSE /\ users' = delete_user(users, auth.user)
                    /\ datasets' = CascadeDatasets(datasets, auth.user)
                    /\ response' = [status |-> 204, detail |-> ""]
            /\ UNCHANGED <<df, result, prev, files, tokens>>

\* The is_active and is_superuser columns are written by no endpoint: an
\* operator clears or sets them in the users table.
Deactivate ==
    \E u \in 1..Len(users) :
        /\ users[u].exists
        /\ users[u].is_active
        /\ users' = [users EXCEPT ![u].is_active = FALSE]
        /\ call' = [fn |-> "deactivate", user |-> u]
        /\ UNCHANGED <<df, result, prev, files, datasets, response, tokens>>

Promote ==
    \E u \in 1..Len(users) :
        /\ users[u].exists
        /\ ~users[u].is_superuser
        /\ users' = [users EXCEPT ![u].is_superuser = TRUE]
        /\ call' = [fn |-> "promote", user |-> u]
        /\ UNCHANGED <<df, result, prev, files, datasets, response, tokens>>

\* A dataset id no row ever had.
UnknownId == 0

\* 0 stands for None (no row).
get_dataset_by_id(ds, dataset_id) ==
    IF dataset_id \in 1..Len(ds) /\ ds[dataset_id].exists THEN dataset_id ELSE 0

\* Mutant: a superuser passes the ownership test.
Owns_OrSuperuser(dataset, user) == dataset.user_id = user \/ users[user].is_superuser

\* str(dataset.user_id) == str(current_user.id)
Owns(dataset, user) == dataset.user_id = user

\* What every dataset, analysis and visualize endpoint does first: the
\* authenticated user, then the 404 and 403 tests.
Resolve(token, dataset_id) ==
    LET auth == get_current_user(users, token)
        d == get_dataset_by_id(datasets, dataset_id)
    IN  IF auth.status # 200
        THEN [status |-> auth.status, detail |-> AuthDetail(auth.status), user |-> 0]
        ELSE IF d = 0
        THEN [status |-> 404, detail |-> "Dataset not found", user |-> auth.user]
        ELSE IF ~Owns(datasets[d], auth.user)
        THEN [status |-> 403, detail |-> "Not authorized", user |-> auth.user]
        ELSE [status |-> 200, detail |-> "OK", user |-> auth.user]

\* POST /datasets/upload of a well-formed csv file.
upload_dataset ==
    /\ Len(datasets) < MaxDatasets
    /\ \E token \in Bearers :
        LET auth == get_current_user(users, token)
        IN  /\ call' = [fn |-> "upload", token |-> token, user |-> auth.user]
            /\ IF auth.status # 200
               THEN /\ response' = [status |-> auth.status, detail |-> AuthDetail(auth.status)]
                    /\ UNCHANGED <<files, datasets>>
               ELSE /\ files' = Append(files, [kind |-> "rows", present |-> TRUE])
                    /\ datasets' = Append(datasets,
                           [exists |-> TRUE, user_id |-> auth.user,
                            file_path |-> Len(files) + 1, filename_ext |-> "csv",
                            file_type |-> "csv", row_count |-> NRows(RowsTable)])
                    /\ response' = [status |-> 201, detail |-> "Dataset uploaded successfully"]
    /\ UNCHANGED <<df, result, prev, users, tokens>>

\* GET /datasets/{dataset_id} answers from the row alone; the other
\* endpoints load the stored file next.
LoadingEndpoints ==
    {"preview", "info", "statistics", "correlation", "outliers", "trends", "summary",
     "bar", "line", "pie", "scatter", "heatmap", "histogram", "suggest"}

ReadEndpoints == {"get"} \cup LoadingEndpoints

\* read_dataset(dataset.file_path, get_file_extension(dataset.filename)):
\* a path with no file raises inside the parser call.
LoadStored(dataset) ==
    IF ~files[dataset.file_path].present
    THEN [ok |-> FALSE, status |-> 500, detail |-> "Error reading file"]
    ELSE read_dataset(files[dataset.file_path].kind, dataset.filename_ext)

\* The endpoints that change nothing: get, preview, info, the analyses and
\* the charts.
get_dataset ==
    \E token \in Bearers, dataset_id \in 1..Len(datasets) \cup {UnknownId},
       endpoint \in ReadEndpoints :
        LET r == Resolve(token, dataset_id)
        IN  /\ call' = [fn |-> "dataset", endpoint |-> endpoint, token |-> token,
                        user |-> r.user, dataset_id |-> dataset_id]
            /\ response' =
                   IF r.status # 200 \/ endpoint = "get"
                   THEN [status |-> r.status, detail |-> r.detail]
                   ELSE LET loaded == LoadStored(datasets[dataset_id])
                        IN  IF loaded.ok THEN [status |-> 200, detail |-> "OK"]
                            ELSE [status |-> loaded.status, detail |-> loaded.detail]
            /\ UNCHANGED <<df, result, prev, files, datasets, users, tokens>>

\* The names a rename may carry: a blank one, or one with the extension.
NewNames == {"", "csv", "txt"}

\* PUT /datasets/{dataset_id} with a filename.
update_dataset ==
    \E token \in Bearers, dataset_id \in 1..Len(datasets) \cup {UnknownId},
       new_filename \in NewNames :
        LET r == Resolve(token, dataset_id)
        IN  /\ call' = [fn |-> "dataset", endpoint |-> "update", token |-> token,
                        user |-> r.user, dataset_id |-> dataset_id]
            /\ IF r.status # 200
               THEN /\ response' = [status |-> r.status, detail |-> r.detail]
                    /\ UNCHANGED datasets
               ELSE IF new_filename = ""
               THEN /\ response' = [status |-> 422, detail |-> "Filename cannot be empty"]
                    /\ UNCHANGED datasets
               ELSE /\ datasets' = [datasets EXCEPT ![dataset_id].filename_ext = new_filename]
                    /\ response' = [status |-> 200, detail |-> "OK"]
            /\ UNCHANGED <<df, result, prev, files, users, tokens>>

\* How os.remove and db.commit may end.
Outcomes == {"ok", "error"}

\* file_handler.delete_file: every exception is caught and False returned.
delete_file(fs, file_path, remove) ==
    IF fs[file_path].present /\ remove = "ok"
    THEN [fs EXCEPT ![file_path].present = FALSE]
    ELSE fs

\* dataset_service.delete_dataset: db.delete, db.commit (which may raise).
DeleteRecord(ds, dataset_id, commit) ==
    IF commit = "ok" THEN [ds EXCEPT ![dataset_id].exists = FALSE] ELSE ds

\* DELETE /datasets/{dataset_id}: the file first, the row second, and 500
\* for any exception of the two.
delete_dataset ==
    \E token \in Bearers, dataset_id \in 1..Len(datasets) \cup {UnknownId},
       remove \in Outcomes, commit \in Outcomes :
        LET r == Resolve(token, dataset_id)
        IN  /\ call' = [fn |-> "dataset", endpoint |-> "delete", token |-> token,
                        user |-> r.user, dataset_id |-> dataset_id]
            /\ IF r.status # 200
               THEN /\ response' = [status |-> r.status, detail |-> r.detail]
                    /\ UNCHANGED <<files, datasets>>
               ELSE /\ files' = delete_file(files, datasets[dataset_id].file_path, remove)
                    /\ datasets' = DeleteRecord(datasets, dataset_id, commit)
                    /\ response' = IF commit = "ok"
                                   THEN [status |-> 200, detail |-> "Dataset deleted successfully."]
                                   ELSE [status |-> 500, detail |-> "Error deleting dataset"]
            /\ UNCHANGED <<df, result, prev, users, tokens>>

\* Accounts: no user yet; registrations, logins and profile requests.
InitAccounts == df = <<>> /\ InitIdle
NextAccounts ==
    \/ register_user
    \/ login_user
    \/ get_current_user_profile
    \/ update_my_profile
    \/ delete_my_account
    \/ Deactivate
SpecAccounts == InitAccounts /\ [][NextAccounts]_vars

\* The dataset registry: MaxUsers users have registered and logged in, and
\* send dataset requests.
RegisteredUsers ==
    [u \in 1..MaxUsers |->
        [exists |-> TRUE, email |-> IF u = 1 THEN "e1" ELSE "e2",
         username |-> IF u = 1 THEN "n1" ELSE "n2", password |-> Password,
         is_active |-> TRUE, is_superuser |-> FALSE]]

InitRegistry ==
    /\ df = <<>>
    /\ call = NoCall
    /\ result = NoResult
    /\ prev = [call |-> NoCall, result |-> NoResult]
    /\ files = <<>>
    /\ datasets = <<>>
    /\ response = [status |-> 0, detail |-> ""]
    /\ users = RegisteredUsers
    /\ tokens = {create_access_token(RegisteredUsers, u) : u \in 1..MaxUsers}
NextRegistry ==
    \/ Promote
    \/ upload_dataset
    \/ get_dataset
    \/ update_dataset
    \/ delete_dataset
    \/ delete_my_account
SpecRegistry == InitRegistry /\ [][NextRegistry]_vars

DatasetRequest == call.fn = "dataset"

\* C25: a dataset, analysis or visualize request of an authenticated user
\* is answered 404 when no dataset has the id, and 403, leaving the dataset
\* rows and the stored files as they were, when the dataset belongs to
\* another user, be the requester a superuser or not.
C25_OwnershipEnforced ==
    [][(call'.fn = "dataset" /\ call'.user # 0) =>
          IF get_dataset_by_id(datasets, call'.dataset_id) = 0
          THEN response'.status = 404 /\ UNCHANGED <<datasets, files>>
          ELSE datasets[call'.dataset_id].user_id # call'.user =>
                   /\ response'.status = 403
                   /\ UNCHANGED <<datasets, files>>]_vars

\* A superuser asked to delete another user's dataset and got 403; the
\* row and its file are still there.
C25_Witness ==
    /\ DatasetRequest
    /\ call.endpoint = "delete"
    /\ call.user # 0
    /\ users[call.user].is_superuser
    /\ get_dataset_by_id(datasets, call.dataset_id) # 0
    /\ datasets[call.dataset_id].user_id # call.user
    /\ files[datasets[call.dataset_id].file_path].present
    /\ response.status = 403

\* C26: after a delete request of the owner the row and the stored file
\* are both gone, and the answer was 200, or both are still there.
C26_DeleteAtomic ==
    (/\ DatasetRequest
     /\ call.endpoint = "delete"
     /\ call.dataset_id # UnknownId
     /\ call.user = datasets[call.dataset_id].user_id) =>
        LET d == datasets[call.dataset_id]
        IN  /\ d.exists <=> files[d.file_path].present
            /\ response.status = 200 <=> ~d.exists

\* C27: a login with the password of an existing active user is answered
\* 200 with an access token of type bearer.
C27_LoginAnswers200 ==
    (/\ call.fn = "login"
     /\ get_user_by_email(users, call.email) # 0
     /\ users[get_user_by_email(users, call.email)].is_active
     /\ users[get_user_by_email(users, call.email)].password = call.password) =>
        /\ response.status = 200
        /\ call.access_token \in tokens
        /\ get_current_user(users, call.access_token).user = get_user_by_email(users, call.email)

\* C28: while a user is inactive, a login with the user's password is
\* answered 401 and signs no token, and no token login signed for the user
\* while active is accepted by a protected endpoint.
C28_InactiveNeverServed ==
    /\ (/\ call.fn = "login"
        /\ get_user_by_email(users, call.email) # 0
        /\ ~users[get_user_by_email(users, call.email)].is_active) =>
           response.status = 401 /\ call.access_token = NoToken
    /\ \A t \in tokens :
           (users[t.user].exists /\ ~users[t.user].is_active) =>
               get_current_user(users, t).status # 200

\* C30: a token is accepted only as the user login signed it for.
C30_TokenBoundToUser ==
    \A t \in tokens :
        get_current_user(users, t).status = 200 => get_current_user(users, t).user = t.user

====
